---- MODULE Spec2Model ----
(***************************************************************************)
(* A model of the three registries of the kubesail backend:                *)
(*   - PortForwardManager      (src-tauri/src/portforward.rs)              *)
(*   - ShellManager            (src-tauri/src/shell.rs)                    *)
(*   - ConnectionManager / DatabaseConnection                              *)
(*                             (src-tauri/src/database, commands/database) *)
(* Every async fn is split at the points where it can be interleaved with  *)
(* other tasks: a critical section that holds a lock and does not await    *)
(* inside is one atomic step; an await outside a lock separates steps.     *)
(***************************************************************************)
EXTENDS Integers, Sequences, FiniteSets, TLC

\* ------------------------------------------------------------------ bounds
\* Subprocesses that are running or still held by a handle at one time.
MaxChildren == 2
\* Database connection ids generated in one run (caps the uuid counter).
MaxConns == 1
\* Shell session ids generated in one run (caps the uuid counter).
MaxSessions == 2
\* Chunks waiting in one session's inbound queue (the queue is unbounded).
MaxQueue == 1
\* shell-output events emitted for one session (caps the event counter).
MaxOutput == 1

\* The concurrently running tasks that invoke operations.
Callers == {"t1", "t2"}

VARIABLES
    forwards,       \* PortForwardManager.forwards: id -> PortForwardHandle
    children,       \* the subprocesses that run or are held by a handle
    okStarts,       \* history: id -> successful starts since the last
                    \*   stop_port_forward / list_port_forwards / stop_all
    connections,    \* ConnectionManager: connection id -> DatabaseConnection
    connLock,       \* the RwLock of ConnectionManager: who holds it
    pool,           \* connection id -> state of its deadpool Pool
    connLog,        \* history: connection id -> the steps that succeeded on it
    nextConn,       \* number of connection ids generated so far
    stdin_senders,  \* ShellManager.stdin_senders: the ids that hold a sender
    sessions,       \* ShellManager.sessions: the ids that hold a JoinHandle
    session,        \* per session id: supervisor task, pumps, queue, events
    nextSession,    \* number of session ids generated so far
    pc,             \* per caller: where it is in the operation it runs
    op,             \* per caller: the operation it was asked to run
    arg,            \* per caller: the arguments of that operation
    loc,            \* per caller: the local variables of that operation
    ret             \* per caller: what the operation returned

pfVars    == <<forwards, children, okStarts>>
dbVars    == <<connections, connLock, pool, connLog, nextConn>>
shellVars == <<stdin_senders, sessions, session, nextSession>>
taskVars  == <<pc, op, arg, loc, ret>>
vars      == <<forwards, children, okStarts, connections, connLock, pool,
               connLog, nextConn, stdin_senders, sessions, session,
               nextSession, pc, op, arg, loc, ret>>

\* ------------------------------------------------------------- map helpers
\* HashMap::insert, HashMap::remove and HashMap::retain on a map that is
\* modelled as a function whose DOMAIN is the set of keys.
MapInsert(m, k, v) == [x \in DOMAIN m \cup {k} |-> IF x = k THEN v ELSE m[x]]
MapRemove(m, k)    == [x \in DOMAIN m \ {k} |-> m[x]]
MapRetain(m, keep) == [x \in DOMAIN m \cap keep |-> m[x]]
EmptyMap           == [x \in {} |-> 0]

\* ---------------------------------------------------------- caller records
NoArg == [kind |-> "none"]
NoLoc == [child |-> 0, conn |-> 0, sid |-> 0, db |-> NoArg]
NoRet == [status |-> "none", err |-> "", id |-> "", num |-> 0]
Ok(id, num) == [status |-> "ok", err |-> "", id |-> id, num |-> num]
Err(e)      == [status |-> "err", err |-> e, id |-> "", num |-> 0]

\* ======================================================================
\* PortForwardManager
\* ======================================================================

\* The arguments start_port_forward is called with by the user interface.
StartRequests ==
    { [resource_type |-> "service", resource_name |-> "pg-rw",
       namespace |-> "default", local_port |-> 15432, remote_port |-> 5432],
      [resource_type |-> "pod", resource_name |-> "c",
       namespace |-> "a-b", local_port |-> 8080, remote_port |-> 80] }

\* format!("{}-{}-{}-{}", resource_type, namespace, resource_name, local_port)
PortForwardId(r) ==
    r.resource_type \o "-" \o r.namespace \o "-" \o r.resource_name
        \o "-" \o ToString(r.local_port)

\* The (resourceType, namespace, resourceName, localPort) tuple of a request.
TupleOf(r) == <<r.resource_type, r.namespace, r.resource_name, r.local_port>>

\* PortForwardInfo { id, ..., status: "running" }
PortForwardInfo(r) ==
    [id |-> PortForwardId(r), resource_type |-> r.resource_type,
     resource_name |-> r.resource_name, namespace |-> r.namespace,
     local_port |-> r.local_port, remote_port |-> r.remote_port,
     status |-> "running"]

\* Command::new("kubectl")...spawn(): a new running subprocess.
\*   status:   "running" | "exited"
\*   kill:     "none" | "sent" | "failed"  the outcome of Child::kill on it
\*   replaced: its handle was dropped by the insert of a later start
\*   owner:    the database connection that started it (0: a direct command)
NewChild(r, owner) ==
    [tuple |-> TupleOf(r), status |-> "running", kill |-> "none",
     replaced |-> FALSE, owner |-> owner]

ChildIds == DOMAIN children

\* The pid the next spawn gets.
FreeChild == CHOOSE p \in 1..MaxChildren :
                /\ p \notin ChildIds
                /\ \A q \in 1..MaxChildren : q < p => q \in ChildIds

\* Child::kill on subprocess p: the signal is sent, or the call fails.
KillChild(ch, p, sent) ==
    [ch EXCEPT ![p].kill = IF sent THEN "sent" ELSE "failed"]

\* Child::kill on every subprocess in ps; the calls whose subprocess is in
\* `failing` return an error.
RECURSIVE KillAll(_, _, _)
KillAll(ch, ps, failing) ==
    IF ps = {} THEN ch
    ELSE LET p == CHOOSE q \in ps : TRUE
         IN KillAll(KillChild(ch, p, p \notin failing), ps \ {p}, failing)

\* The subprocesses a handle refers to: the registered ones and the ones a
\* start_port_forward has spawned and not yet inserted.
Held(fw, p_c, l) ==
    {fw[id].process : id \in DOMAIN fw}
        \cup {l[c].child : c \in {x \in Callers : p_c[x] = "pf_insert"}}

\* The operating system forgets a subprocess that has exited once no handle
\* refers to it.
Reap(ch, fw, p_c, l) ==
    [p \in {q \in DOMAIN ch : ch[q].status = "running"
                               \/ q \in Held(fw, p_c, l)} |-> ch[p]]

\* The history of successful starts is reset by stop, list and stop_all.
NoStarts == [id \in {} |-> 0]
CountStart(h, id) ==
    MapInsert(h, id, IF id \in DOMAIN h THEN h[id] + 1 ELSE 1)

\* A caller leaves start_port_forward: the direct command returns to the
\* user interface, DatabasePortForward::create goes on with the result.
AfterStart(c, r) ==
    IF op[c] = "db_connect"
    THEN /\ pc' = [pc EXCEPT ![c] = "db_pf_created"]
         /\ ret' = [ret EXCEPT ![c] = r]
    ELSE /\ pc' = [pc EXCEPT ![c] = "returned"]
         /\ ret' = [ret EXCEPT ![c] = r]

\* commands: start_port_forward is invoked with one of the requests.
CallStartPortForward(c) ==
    /\ pc[c] = "idle"
    /\ \E r \in StartRequests :
          /\ arg' = [arg EXCEPT ![c] = r]
          /\ op' = [op EXCEPT ![c] = "start_port_forward"]
    /\ pc' = [pc EXCEPT ![c] = "pf_check"]
    /\ UNCHANGED <<pfVars, dbVars, shellVars, loc, ret>>

\* The arguments start_port_forward is called with for resources whose
\* names and namespaces are Kubernetes names, which may contain '-'.
TupleRequests ==
    [resource_type : {"pod"}, resource_name : {"c", "b-c"},
     namespace : {"a", "a-b"}, local_port : {8080}, remote_port : {80}]

\* commands: start_port_forward is invoked for one of these resources.
CallStartPortForwardNamed(c) ==
    /\ pc[c] = "idle"
    /\ \E r \in TupleRequests :
          /\ arg' = [arg EXCEPT ![c] = r]
          /\ op' = [op EXCEPT ![c] = "start_port_forward"]
    /\ pc' = [pc EXCEPT ![c] = "pf_check"]
    /\ UNCHANGED <<pfVars, dbVars, shellVars, loc, ret>>

\* A start_port_forward whose check lets every id through.
StartCheck_Unchecked(c) ==
    /\ pc[c] = "pf_check"
    /\ pc' = [pc EXCEPT ![c] = "pf_spawn"]
    /\ UNCHANGED <<pfVars, dbVars, shellVars, op, arg, loc, ret>>

\* A start_port_forward whose check prunes a dead entry: an entry whose
\* subprocess has exited is removed and the start goes on.
StartCheck_Pruning(c) ==
    /\ pc[c] = "pf_check"
    /\ LET id == PortForwardId(arg[c])
       IN IF id \in DOMAIN forwards
             /\ children[forwards[id].process].status = "running"
          THEN /\ AfterStart(c, Err("Port forward already exists"))
               /\ UNCHANGED <<forwards, children>>
          ELSE /\ pc' = [pc EXCEPT ![c] = "pf_spawn"]
               /\ forwards' = MapRemove(forwards, id)
               /\ children' = Reap(children, forwards', pc', loc)
               /\ UNCHANGED ret
    /\ UNCHANGED <<okStarts, dbVars, shellVars, op, arg, loc>>

\* start_port_forward, lines 32-40: under the lock, is the id registered?
StartCheck(c) ==
    /\ pc[c] = "pf_check"
    /\ IF PortForwardId(arg[c]) \in DOMAIN forwards
       THEN AfterStart(c, Err("Port forward already exists"))
       ELSE /\ pc' = [pc EXCEPT ![c] = "pf_spawn"]
            /\ UNCHANGED ret
    /\ UNCHANGED <<pfVars, dbVars, shellVars, op, arg, loc>>

\* A start_port_forward that registers the entry before it learns that the
\* spawn failed: the failed start leaves an entry with a dead subprocess.
StartSpawn_Partial(c) ==
    /\ pc[c] = "pf_spawn"
    /\ Cardinality(ChildIds) < MaxChildren
    /\ \/ /\ children' = MapInsert(children, FreeChild,
                                   NewChild(arg[c], loc[c].conn))
          /\ loc' = [loc EXCEPT ![c].child = FreeChild]
          /\ pc' = [pc EXCEPT ![c] = "pf_insert"]
          /\ UNCHANGED <<forwards, ret>>
       \/ /\ children' = MapInsert(children, FreeChild,
                            [NewChild(arg[c], loc[c].conn)
                                EXCEPT !.status = "exited"])
          /\ forwards' = MapInsert(forwards, PortForwardId(arg[c]),
                            [info |-> PortForwardInfo(arg[c]),
                             process |-> FreeChild])
          /\ AfterStart(c, Err("Failed to start kubectl port-forward"))
          /\ UNCHANGED loc
    /\ UNCHANGED <<okStarts, dbVars, shellVars, op, arg>>

\* start_port_forward, lines 42-52: spawn kubectl outside the lock; a spawn
\* error is returned with `?`.
StartSpawn(c) ==
    /\ pc[c] = "pf_spawn"
    /\ \/ /\ Cardinality(ChildIds) < MaxChildren
          /\ children' = MapInsert(children, FreeChild,
                                   NewChild(arg[c], loc[c].conn))
          /\ loc' = [loc EXCEPT ![c].child = FreeChild]
          /\ pc' = [pc EXCEPT ![c] = "pf_insert"]
          /\ UNCHANGED ret
       \/ /\ AfterStart(c, Err("Failed to start kubectl port-forward"))
          /\ UNCHANGED <<children, loc>>
    /\ UNCHANGED <<forwards, okStarts, dbVars, shellVars, op, arg>>

\* An insert that forgets the handle it replaces instead of dropping it: the
\* subprocess of the replaced handle is not killed.
StartInsert_Forgetting(c) ==
    /\ pc[c] = "pf_insert"
    /\ LET id == PortForwardId(arg[c])
           handle == [info |-> PortForwardInfo(arg[c]),
                      process |-> loc[c].child]
           old == IF id \in DOMAIN forwards
                  THEN {forwards[id].process} ELSE {}
       IN /\ forwards' = MapInsert(forwards, id, handle)
          /\ children' =
                Reap([p \in DOMAIN children |->
                        IF p \in old
                        THEN [children[p] EXCEPT !.replaced = TRUE]
                        ELSE children[p]],
                     forwards', [pc EXCEPT ![c] = "returned"], loc)
          /\ okStarts' = CountStart(okStarts, id)
          /\ AfterStart(c, Ok(id, 0))
    /\ loc' = [loc EXCEPT ![c].child = 0]
    /\ UNCHANGED <<dbVars, shellVars, op, arg>>

\* start_port_forward, lines 54-72: lock again, forwards.insert(id, handle).
\* The handle the insert replaces, if any, is dropped there: Drop for
\* PortForwardHandle calls kill on its subprocess and ignores the result.
StartInsert(c) ==
    /\ pc[c] = "pf_insert"
    /\ LET id == PortForwardId(arg[c])
           handle == [info |-> PortForwardInfo(arg[c]),
                      process |-> loc[c].child]
           old == IF id \in DOMAIN forwards
                  THEN {forwards[id].process} ELSE {}
       IN /\ forwards' = MapInsert(forwards, id, handle)
          /\ \E failing \in SUBSET old :
                children' =
                    Reap([p \in DOMAIN children |->
                            IF p \in old
                            THEN [KillChild(children, p, p \notin failing)[p]
                                     EXCEPT !.replaced = TRUE]
                            ELSE children[p]],
                         forwards', [pc EXCEPT ![c] = "returned"], loc)
          /\ okStarts' = CountStart(okStarts, id)
          /\ AfterStart(c, Ok(id, 0))
    /\ loc' = [loc EXCEPT ![c].child = 0]
    /\ UNCHANGED <<dbVars, shellVars, op, arg>>

\* A stop_port_forward that kills the subprocess and leaves the entry.
StopBody_Kept(id, sent) ==
    /\ okStarts' = NoStarts
    /\ IF id \in DOMAIN forwards
       THEN /\ forwards' = forwards
            /\ children' = KillChild(children, forwards[id].process, sent)
       ELSE UNCHANGED <<forwards, children>>

\* A stop_port_forward that kills first and removes the entry only when the
\* kill succeeded.
StopBody_KeptOnError(id, sent) ==
    /\ okStarts' = NoStarts
    /\ IF id \in DOMAIN forwards
       THEN /\ forwards' = IF sent THEN MapRemove(forwards, id) ELSE forwards
            /\ children' = Reap(KillChild(children, forwards[id].process,
                                          sent), forwards', pc, loc)
       ELSE UNCHANGED <<forwards, children>>

\* stop_port_forward, lines 75-86, run under the lock for `id`: the entry is
\* removed, then its subprocess is killed; `sent` says whether the kill
\* succeeds.
StopBody(id, sent) ==
    /\ okStarts' = NoStarts
    /\ IF id \in DOMAIN forwards
       THEN /\ forwards' = MapRemove(forwards, id)
            /\ children' = Reap(KillChild(children, forwards[id].process,
                                          sent), forwards', pc, loc)
       ELSE UNCHANGED <<forwards, children>>

\* A stop_port_forward that reports success for an id it does not find.
StopResult_Silent(id, sent) ==
    IF id \in DOMAIN forwards /\ ~sent
    THEN Err("Failed to kill port-forward process")
    ELSE Ok(id, 0)

\* What stop_port_forward returns: a kill error is returned with `?`, after
\* the entry was removed.
StopResult(id, sent) ==
    IF id \notin DOMAIN forwards THEN Err("Port forward not found")
    ELSE IF sent THEN Ok(id, 0)
    ELSE Err("Failed to kill port-forward process")

\* The ids a caller can pass to stop_port_forward.
StopIds == {PortForwardId(r) : r \in StartRequests} \cup DOMAIN forwards

\* commands: stop_port_forward(id).
StopPortForward(c) ==
    /\ pc[c] = "idle"
    /\ \E id \in StopIds, sent \in BOOLEAN :
          /\ StopBody(id, sent)
          /\ arg' = [arg EXCEPT ![c] = [id |-> id]]
          /\ ret' = [ret EXCEPT ![c] = StopResult(id, sent)]
    /\ op' = [op EXCEPT ![c] = "stop_port_forward"]
    /\ pc' = [pc EXCEPT ![c] = "returned"]
    /\ UNCHANGED <<dbVars, shellVars, loc>>

\* A list_port_forwards that returns the entries without the sweep.
ListPortForwards_NoSweep(c) ==
    /\ pc[c] = "idle"
    /\ ret' = [ret EXCEPT ![c] = Ok("", Cardinality(DOMAIN forwards))]
    /\ okStarts' = NoStarts
    /\ arg' = [arg EXCEPT ![c] = NoArg]
    /\ op' = [op EXCEPT ![c] = "list_port_forwards"]
    /\ pc' = [pc EXCEPT ![c] = "returned"]
    /\ UNCHANGED <<forwards, children, dbVars, shellVars, loc>>

\* list_port_forwards, lines 88-105: try_wait on every entry; an entry whose
\* subprocess exited, or whose try_wait fails, is not retained. A handle
\* that is not retained is dropped, and its Drop calls kill.
ListPortForwards(c) ==
    /\ pc[c] = "idle"
    /\ \E waitErr \in SUBSET DOMAIN forwards :
          LET keep == {id \in DOMAIN forwards :
                          /\ children[forwards[id].process].status = "running"
                          /\ id \notin waitErr}
              gone == {forwards[id].process : id \in DOMAIN forwards \ keep}
          IN /\ forwards' = MapRetain(forwards, keep)
             /\ \E failing \in SUBSET gone :
                   children' = Reap(KillAll(children, gone, failing),
                                    forwards', pc, loc)
             /\ ret' = [ret EXCEPT ![c] = Ok("", Cardinality(keep))]
    /\ okStarts' = NoStarts
    /\ arg' = [arg EXCEPT ![c] = NoArg]
    /\ op' = [op EXCEPT ![c] = "list_port_forwards"]
    /\ pc' = [pc EXCEPT ![c] = "returned"]
    /\ UNCHANGED <<dbVars, shellVars, loc>>

\* A stop_all that returns the error of a failed kill.
StopAll_Propagating(c) ==
    /\ pc[c] = "idle"
    /\ LET all == {forwards[id].process : id \in DOMAIN forwards}
       IN \E failing \in SUBSET all :
             /\ children' = Reap(KillAll(children, all, failing),
                                 EmptyMap, pc, loc)
             /\ ret' = [ret EXCEPT ![c] =
                           IF failing = {} THEN Ok("", 0)
                           ELSE Err("Failed to kill port-forward process")]
    /\ forwards' = EmptyMap
    /\ okStarts' = NoStarts
    /\ arg' = [arg EXCEPT ![c] = NoArg]
    /\ op' = [op EXCEPT ![c] = "stop_all"]
    /\ pc' = [pc EXCEPT ![c] = "returned"]
    /\ UNCHANGED <<dbVars, shellVars, loc>>

\* stop_all, lines 107-118: drain the map, kill every subprocess, ignore
\* the kill errors.
StopAll(c) ==
    /\ pc[c] = "idle"
    /\ LET all == {forwards[id].process : id \in DOMAIN forwards}
       IN \E failing \in SUBSET all :
             children' = Reap(KillAll(children, all, failing),
                              EmptyMap, pc, loc)
    /\ forwards' = EmptyMap
    /\ okStarts' = NoStarts
    /\ arg' = [arg EXCEPT ![c] = NoArg]
    /\ ret' = [ret EXCEPT ![c] = Ok("", 0)]
    /\ op' = [op EXCEPT ![c] = "stop_all"]
    /\ pc' = [pc EXCEPT ![c] = "returned"]
    /\ UNCHANGED <<dbVars, shellVars, loc>>

\* A kubectl subprocess exits: by itself (the tunnel broke, the port was
\* taken) or because it was killed. Nothing in the manager observes it.
ChildExit(p) ==
    /\ p \in ChildIds
    /\ children[p].status = "running"
    /\ children' = Reap([children EXCEPT ![p].status = "exited"],
                         forwards, pc, loc)
    /\ UNCHANGED <<forwards, okStarts, dbVars, shellVars, taskVars>>

\* The command's result was delivered to the user interface; the task is
\* free to run the next command.
Return(c) ==
    /\ pc[c] = "returned"
    /\ pc' = [pc EXCEPT ![c] = "idle"]
    /\ op' = [op EXCEPT ![c] = "none"]
    /\ arg' = [arg EXCEPT ![c] = NoArg]
    /\ loc' = [loc EXCEPT ![c] = NoLoc]
    /\ ret' = [ret EXCEPT ![c] = NoRet]
    /\ UNCHANGED <<pfVars, dbVars, shellVars>>

\* ======================================================================
\* DatabaseConnection and the db_connect / db_disconnect commands
\* ======================================================================

\* The arguments db_connect is called with (the credentials play no part).
ConnectRequests ==
    { [cluster_name |-> "pgcluster", namespace |-> "default",
       database |-> "appdb"] }

\* The ports the operating system hands out to a listener bound to port 0.
EphemeralPorts == {50001, 50002}

\* find_free_port, lines 82-95: a port no running subprocess listens on; the
\* probing listener is closed when the function returns.
FreePorts ==
    {p \in EphemeralPorts :
        \A q \in ChildIds :
            children[q].status = "running" => children[q].tuple[4] # p}

\* DatabasePortForward::create, lines 36-59: the request it passes to
\* start_port_forward.
DatabaseForwardRequest(req, port) ==
    [resource_type |-> "service",
     resource_name |-> req.cluster_name \o "-rw",
     namespace |-> req.namespace, local_port |-> port, remote_port |-> 5432]

\* One more step has succeeded on connection k.
Logged(k, step) ==
    connLog' = MapInsert(connLog, k,
                  IF k \in DOMAIN connLog THEN Append(connLog[k], step)
                  ELSE <<step>>)

\* tokio RwLock of the ConnectionManager.
LockFree == connLock.writer = "" /\ connLock.readers = {}

\* db_connect, DatabaseConnection::create lines 39-40 and
\* DatabasePortForward::create lines 36-59: a fresh connection id, a free
\* local port, then start_port_forward is entered. At most `max`
\* connection ids are generated in one run.
CreateConnection(c, max) ==
    /\ pc[c] = "idle"
    /\ nextConn < max
    /\ nextConn' = nextConn + 1
    /\ op' = [op EXCEPT ![c] = "db_connect"]
    /\ \E req \in ConnectRequests :
          \/ \E port \in FreePorts :
                /\ arg' = [arg EXCEPT
                              ![c] = DatabaseForwardRequest(req, port)]
                /\ loc' = [loc EXCEPT ![c].conn = nextConn + 1,
                                      ![c].db = req]
                /\ pc' = [pc EXCEPT ![c] = "pf_check"]
                /\ UNCHANGED ret
          \/ /\ loc' = [loc EXCEPT ![c].conn = nextConn + 1, ![c].db = req]
             /\ ret' = [ret EXCEPT ![c] = Err("Failed to find free port")]
             /\ pc' = [pc EXCEPT ![c] = "returned"]
             /\ UNCHANGED arg
    /\ UNCHANGED <<pfVars, connections, connLock, pool, connLog, shellVars>>

\* commands: db_connect is invoked.
CallDbConnect(c) == CreateConnection(c, MaxConns)

\* Connection ids generated in one run in which db_connect calls run side
\* by side.
MaxPortConns == 2

\* commands: db_connect is invoked while another db_connect may be running.
CallDbConnectConcurrent(c) == CreateConnection(c, MaxPortConns)

\* DatabasePortForward::create lines 60-79 and DatabaseConnection::create
\* lines 48-76: a start_port_forward error is returned with `?`; otherwise,
\* after the settle delay, the pool is created, and a pool configuration
\* error is returned with `?`.
DbCreatePool(c) ==
    /\ pc[c] = "db_pf_created"
    /\ IF ret[c].status = "err"
       THEN /\ ret' = [ret EXCEPT
                          ![c] = Err("Failed to create port-forward")]
            /\ pc' = [pc EXCEPT ![c] = "returned"]
            /\ UNCHANGED <<pool, connLog>>
       ELSE \/ /\ pool' = MapInsert(pool, loc[c].conn, "open")
               /\ connLog' = MapInsert(connLog, loc[c].conn,
                                       <<"port_forward", "pool">>)
               /\ ret' = [ret EXCEPT ![c] = NoRet]
               /\ pc' = [pc EXCEPT ![c] = "db_test"]
            \/ /\ connLog' = MapInsert(connLog, loc[c].conn,
                                       <<"port_forward">>)
               /\ ret' = [ret EXCEPT ![c] = Err("Failed to create pool")]
               /\ pc' = [pc EXCEPT ![c] = "returned"]
               /\ UNCHANGED pool
    /\ UNCHANGED <<pfVars, connections, connLock, nextConn, shellVars, op,
                   arg, loc>>

\* A connection test that goes on whatever the pool and the query answer.
DbTestConnection_Unchecked(c) ==
    /\ pc[c] = "db_test"
    /\ pc' = [pc EXCEPT ![c] = "db_register"]
    /\ \/ Logged(loc[c].conn, "test_query")
       \/ UNCHANGED connLog
    /\ UNCHANGED <<pfVars, connections, connLock, pool, nextConn, shellVars,
                   op, arg, loc, ret>>

\* DatabaseConnection::create lines 80-112: pool.get() and the test query
\* "SELECT 1"; an error of either is returned with `?`, which drops the
\* pool.
DbTestConnection(c) ==
    /\ pc[c] = "db_test"
    /\ \/ /\ Logged(loc[c].conn, "test_query")
          /\ pc' = [pc EXCEPT ![c] = "db_register"]
          /\ UNCHANGED <<pool, ret>>
       \/ \E e \in {"Pool error", "Postgres error"} :
             /\ ret' = [ret EXCEPT ![c] = Err(e)]
             /\ pool' = [pool EXCEPT ![loc[c].conn] = "dropped"]
             /\ pc' = [pc EXCEPT ![c] = "returned"]
             /\ UNCHANGED connLog
    /\ UNCHANGED <<pfVars, connections, connLock, nextConn, shellVars, op,
                   arg, loc>>

\* DatabaseConnection { info, pool, port_forward }
DatabaseConnection(k, req, fwd) ==
    [info |-> [connection_id |-> k, cluster_name |-> req.cluster_name,
               namespace |-> req.namespace, database |-> req.database,
               local_port |-> fwd.local_port],
     port_forward |-> [connection_id |-> k,
                       port_forward_id |-> PortForwardId(fwd),
                       local_port |-> fwd.local_port]]

\* db_connect lines 39-48: take the write lock, insert the connection.
DbRegister(c) ==
    /\ pc[c] = "db_register"
    /\ LockFree
    /\ connections' = MapInsert(connections, loc[c].conn,
                         DatabaseConnection(loc[c].conn, loc[c].db, arg[c]))
    /\ Logged(loc[c].conn, "registered")
    /\ ret' = [ret EXCEPT ![c] = Ok("", loc[c].conn)]
    /\ pc' = [pc EXCEPT ![c] = "returned"]
    /\ UNCHANGED <<pfVars, connLock, pool, nextConn, shellVars, op, arg, loc>>

\* The connection ids a command can be given: the generated ones and 0, an
\* id that was never generated.
ConnectionArgs == 0..MaxConns

\* A db_disconnect that does not wait for the readers of the lock: it goes
\* on as soon as no other writer holds it.
DbDisconnect_Eager(c) ==
    /\ pc[c] = "idle"
    /\ connLock.writer = ""
    /\ op' = [op EXCEPT ![c] = "db_disconnect"]
    /\ \E k \in ConnectionArgs :
          /\ arg' = [arg EXCEPT ![c] = [connection_id |-> k]]
          /\ IF k \in DOMAIN connections
             THEN /\ connections' = MapRemove(connections, k)
                  /\ connLock' = [connLock EXCEPT !.writer = c]
                  /\ loc' = [loc EXCEPT ![c].conn = k,
                                        ![c].db = connections[k].port_forward]
                  /\ pc' = [pc EXCEPT ![c] = "db_close_pool"]
                  /\ UNCHANGED ret
             ELSE /\ ret' = [ret EXCEPT ![c] = Err("Connection not found")]
                  /\ pc' = [pc EXCEPT ![c] = "returned"]
                  /\ UNCHANGED <<connections, connLock, loc>>
    /\ UNCHANGED <<pfVars, pool, connLog, nextConn, shellVars>>

\* db_disconnect lines 58-64: take the write lock and remove the
\* connection; an unknown id is an error. The lock is held until the
\* command returns.
DbDisconnect(c) ==
    /\ pc[c] = "idle"
    /\ LockFree
    /\ op' = [op EXCEPT ![c] = "db_disconnect"]
    /\ \E k \in ConnectionArgs :
          /\ arg' = [arg EXCEPT ![c] = [connection_id |-> k]]
          /\ IF k \in DOMAIN connections
             THEN /\ connections' = MapRemove(connections, k)
                  /\ connLock' = [connLock EXCEPT !.writer = c]
                  /\ loc' = [loc EXCEPT ![c].conn = k,
                                        ![c].db = connections[k].port_forward]
                  /\ pc' = [pc EXCEPT ![c] = "db_close_pool"]
                  /\ UNCHANGED ret
             ELSE /\ ret' = [ret EXCEPT ![c] = Err("Connection not found")]
                  /\ pc' = [pc EXCEPT ![c] = "returned"]
                  /\ UNCHANGED <<connections, connLock, loc>>
    /\ UNCHANGED <<pfVars, pool, connLog, nextConn, shellVars>>

\* A close that goes on to the port-forward without closing the pool.
DbClosePool_Skipped(c) ==
    /\ pc[c] = "db_close_pool"
    /\ pc' = [pc EXCEPT ![c] = "db_close_stop"]
    /\ UNCHANGED <<pfVars, connections, connLock, pool, connLog, nextConn,
                   shellVars, op, arg, loc, ret>>

\* DatabaseConnection::close lines 135-136: self.pool.close().
DbClosePool(c) ==
    /\ pc[c] = "db_close_pool"
    /\ pool' = [pool EXCEPT ![loc[c].conn] = "closed"]
    /\ Logged(loc[c].conn, "pool_close")
    /\ pc' = [pc EXCEPT ![c] = "db_close_stop"]
    /\ UNCHANGED <<pfVars, connections, connLock, nextConn, shellVars, op,
                   arg, loc, ret>>

\* A close that puts the connection back into the registry when the stop
\* of its port-forward fails.
DbCloseStop_Restoring(c) ==
    /\ pc[c] = "db_close_stop"
    /\ \E sent \in BOOLEAN :
          LET r == StopResult(loc[c].db.port_forward_id, sent)
          IN /\ StopBody(loc[c].db.port_forward_id, sent)
             /\ ret' = [ret EXCEPT ![c] =
                          IF r.status = "ok" THEN Ok("", loc[c].conn)
                          ELSE Err("Failed to stop port-forward")]
             /\ connections' =
                   IF r.status = "ok" THEN connections
                   ELSE MapInsert(connections, loc[c].conn,
                           [info |-> [connection_id |-> loc[c].conn,
                                      local_port |-> loc[c].db.local_port],
                            port_forward |-> loc[c].db])
    /\ Logged(loc[c].conn, "stop_port_forward")
    /\ connLock' = [connLock EXCEPT !.writer = ""]
    /\ pc' = [pc EXCEPT ![c] = "returned"]
    /\ UNCHANGED <<pool, nextConn, shellVars, op, arg, loc>>

\* DatabaseConnection::close lines 138-143, DatabasePortForward::stop and
\* db_disconnect lines 66-75: stop_port_forward on the owned id; its error
\* is returned with `?`. Returning releases the write lock.
DbCloseStop(c) ==
    /\ pc[c] = "db_close_stop"
    /\ \E sent \in BOOLEAN :
          /\ StopBody(loc[c].db.port_forward_id, sent)
          /\ ret' = [ret EXCEPT ![c] =
                IF StopResult(loc[c].db.port_forward_id, sent).status = "ok"
                THEN Ok("", loc[c].conn)
                ELSE Err("Failed to stop port-forward")]
    /\ Logged(loc[c].conn, "stop_port_forward")
    /\ connLock' = [connLock EXCEPT !.writer = ""]
    /\ pc' = [pc EXCEPT ![c] = "returned"]
    /\ UNCHANGED <<connections, pool, nextConn, shellVars, op, arg, loc>>

\* ------------------------------------------------ steady-state operations
\* What a command has seen of the pool so far: the outcome of the last
\* pool.get(), of the last statement, and the number of the round trip.
NoProbe == [get |-> "none", query |-> "none", round |-> 1]

\* A lookup that answers an unknown id with Ok(false) instead of an error.
ReadAndGet_Lenient(c, k, next) ==
    IF k \in DOMAIN connections
    THEN /\ connLock' = [connLock EXCEPT !.readers = @ \cup {c}]
         /\ loc' = [loc EXCEPT ![c].conn = k, ![c].db = NoProbe]
         /\ pc' = [pc EXCEPT ![c] = next]
         /\ UNCHANGED ret
    ELSE /\ ret' = [ret EXCEPT ![c] = Ok("false", 0)]
         /\ pc' = [pc EXCEPT ![c] = "returned"]
         /\ UNCHANGED <<connLock, loc>>

\* connection_manager.read().await and manager.get(&connection_id), as in
\* db_health_check lines 197-200: the read lock is shared with other
\* readers and is held until the command returns; an unknown id is an
\* error.
ReadAndGet(c, k, next) ==
    IF k \in DOMAIN connections
    THEN /\ connLock' = [connLock EXCEPT !.readers = @ \cup {c}]
         /\ loc' = [loc EXCEPT ![c].conn = k, ![c].db = NoProbe]
         /\ pc' = [pc EXCEPT ![c] = next]
         /\ UNCHANGED ret
    ELSE /\ ret' = [ret EXCEPT ![c] = Err("Connection not found")]
         /\ pc' = [pc EXCEPT ![c] = "returned"]
         /\ UNCHANGED <<connLock, loc>>

\* A return that keeps the read guard of the connection manager.
ReadReturn_Leaking(c, r) ==
    /\ ret' = [ret EXCEPT ![c] = r]
    /\ pc' = [pc EXCEPT ![c] = "returned"]
    /\ UNCHANGED connLock

\* The command returns r: the read guard is dropped.
ReadReturn(c, r) ==
    /\ ret' = [ret EXCEPT ![c] = r]
    /\ connLock' = [connLock EXCEPT !.readers = @ \ {c}]
    /\ pc' = [pc EXCEPT ![c] = "returned"]

\* db_health_check lines 197-200.
DbHealthCheck(c) ==
    /\ pc[c] = "idle"
    /\ connLock.writer = ""
    /\ op' = [op EXCEPT ![c] = "db_health_check"]
    /\ \E k \in ConnectionArgs :
          /\ arg' = [arg EXCEPT ![c] = [connection_id |-> k]]
          /\ ReadAndGet(c, k, "db_health_get")
    /\ UNCHANGED <<pfVars, connections, pool, connLog, nextConn, shellVars>>

\* DatabaseConnection::health_check lines 152 and 162-165: pool.get(); its
\* error is logged and answered with Ok(false).
DbHealthGet(c) ==
    /\ pc[c] = "db_health_get"
    /\ \/ /\ loc' = [loc EXCEPT ![c].db.get = "ok"]
          /\ pc' = [pc EXCEPT ![c] = "db_health_query"]
          /\ UNCHANGED <<connLock, ret>>
       \/ /\ loc' = [loc EXCEPT ![c].db.get = "err"]
          /\ ReadReturn(c, Ok("false", 0))
    /\ UNCHANGED <<pfVars, connections, pool, connLog, nextConn, shellVars,
                   op, arg>>

\* A health check that hands the error of the probe query to its caller,
\* where db_health_check wraps it.
DbHealthQuery_Propagating(c) ==
    /\ pc[c] = "db_health_query"
    /\ \/ /\ loc' = [loc EXCEPT ![c].db.query = "ok"]
          /\ ReadReturn(c, Ok("true", 0))
       \/ /\ loc' = [loc EXCEPT ![c].db.query = "err"]
          /\ ReadReturn(c, Err("Health check failed"))
    /\ UNCHANGED <<pfVars, connections, pool, connLog, nextConn, shellVars,
                   op, arg>>

\* DatabaseConnection::health_check lines 153-161 and db_health_check lines
\* 202-205: the probe query "SELECT 1"; Ok(true) when it succeeds, and its
\* error is logged and answered with Ok(false).
DbHealthQuery(c) ==
    /\ pc[c] = "db_health_query"
    /\ \/ /\ loc' = [loc EXCEPT ![c].db.query = "ok"]
          /\ ReadReturn(c, Ok("true", 0))
       \/ /\ loc' = [loc EXCEPT ![c].db.query = "err"]
          /\ ReadReturn(c, Ok("false", 0))
    /\ UNCHANGED <<pfVars, connections, pool, connLog, nextConn, shellVars,
                   op, arg>>

\* The query commands and the number of round trips (get_client, then the
\* statement) each makes: execute_custom_query makes one, get_table_data
\* makes one in get_table_columns and one in execute_query.
QueryOps == {"db_execute_query", "db_get_table_data"}
Rounds(o) == IF o = "db_get_table_data" THEN 2 ELSE 1
QueryError(o) ==
    IF o = "db_get_table_data" THEN Err("Failed to get table data")
    ELSE Err("Failed to execute query")

\* db_get_table_data lines 163-166 and db_execute_query lines 181-184.
DbQuery(c) ==
    /\ pc[c] = "idle"
    /\ connLock.writer = ""
    /\ \E o \in QueryOps : op' = [op EXCEPT ![c] = o]
    /\ \E k \in ConnectionArgs :
          /\ arg' = [arg EXCEPT ![c] = [connection_id |-> k]]
          /\ ReadAndGet(c, k, "db_query_get")
    /\ UNCHANGED <<pfVars, connections, pool, connLog, nextConn, shellVars>>

\* A query command that evicts the connection whose pool gave no client.
DbQueryGet_Evicting(c) ==
    /\ pc[c] = "db_query_get"
    /\ \/ /\ loc' = [loc EXCEPT ![c].db.get = "ok"]
          /\ pc' = [pc EXCEPT ![c] = "db_query_run"]
          /\ UNCHANGED <<connections, connLock, ret>>
       \/ /\ loc' = [loc EXCEPT ![c].db.get = "err"]
          /\ connections' = MapRemove(connections, loc[c].conn)
          /\ ReadReturn(c, QueryError(op[c]))
    /\ UNCHANGED <<pfVars, pool, connLog, nextConn, shellVars, op, arg>>

\* queries.rs lines 150, 224 and 279: conn.get_client().await?.
DbQueryGet(c) ==
    /\ pc[c] = "db_query_get"
    /\ \/ /\ loc' = [loc EXCEPT ![c].db.get = "ok"]
          /\ pc' = [pc EXCEPT ![c] = "db_query_run"]
          /\ UNCHANGED <<connLock, ret>>
       \/ /\ loc' = [loc EXCEPT ![c].db.get = "err"]
          /\ ReadReturn(c, QueryError(op[c]))
    /\ UNCHANGED <<pfVars, connections, pool, connLog, nextConn, shellVars,
                   op, arg>>

\* queries.rs lines 152-182, 228-245 and 282: the statement is prepared and
\* run; an error is returned with `?` and wrapped by the command; after the
\* last round trip the rows are returned.
DbQueryRun(c) ==
    /\ pc[c] = "db_query_run"
    /\ \/ /\ loc[c].db.round < Rounds(op[c])
          /\ loc' = [loc EXCEPT ![c].db =
                        [get |-> "none", query |-> "ok",
                         round |-> loc[c].db.round + 1]]
          /\ pc' = [pc EXCEPT ![c] = "db_query_get"]
          /\ UNCHANGED <<connLock, ret>>
       \/ /\ loc[c].db.round = Rounds(op[c])
          /\ loc' = [loc EXCEPT ![c].db.query = "ok"]
          /\ ReadReturn(c, Ok("rows", 0))
       \/ /\ loc' = [loc EXCEPT ![c].db.query = "err"]
          /\ ReadReturn(c, QueryError(op[c]))
    /\ UNCHANGED <<pfVars, connections, pool, connLog, nextConn, shellVars,
                   op, arg>>

\* ======================================================================
\* ShellManager
\* ======================================================================

\* The pods start_session can be pointed at: what pods.get returns.
Pods ==
    { [phase |-> "Running", containers |-> <<"app">>,
       container_statuses |-> {[name |-> "app", ready |-> TRUE]}],
      [phase |-> "Pending", containers |-> <<"app">>,
       container_statuses |-> {[name |-> "app", ready |-> FALSE]}],
      [phase |-> "Running", containers |-> <<"app">>,
       container_statuses |-> {[name |-> "app", ready |-> FALSE]}],
      [phase |-> "Running", containers |-> <<"app">>,
       container_statuses |-> {}] }

\* The arguments of start_session; "" stands for None.
ShellRequests ==
    [pod : Pods, container : {"", "app"}, shell : {"", "/bin/zsh"}]

\* The chunks send_input is called with.
Chunks == {"ls", "exit"}

\* start_session lines 66-76: the container to attach to.
TargetContainer(req) ==
    IF req.container # "" THEN req.container ELSE Head(req.pod.containers)

\* start_session lines 55-91: the validation of the pod and its container;
\* "" when the session may be attached.
ValidationError(req) ==
    IF req.pod.phase # "Running" THEN "Pod is not in Running state"
    ELSE IF req.container = "" /\ req.pod.containers = <<>>
    THEN "Pod has no containers"
    ELSE IF ~\E cs \in req.pod.container_statuses :
                cs.name = TargetContainer(req) /\ cs.ready
    THEN "Container is not ready"
    ELSE ""

\* What start_session goes on with once the pod is validated, lines 93-117:
\* the pod, the target container and the requested shell.
AttachRequest(req) ==
    [pod |-> req.pod, container |-> TargetContainer(req),
     shell |-> req.shell]

\* start_session lines 93-102: the shells to try, in order.
ShellsToTry(req) ==
    IF req.shell # "" THEN <<req.shell>>
    ELSE <<"/bin/bash", "/bin/sh", "/bin/ash">>

\* start_session lines 112-127: the first shell of the list whose exec
\* succeeds ("" when none does); `launchable` are the shells that exist in
\* the container.
FirstAttached(list, launchable) ==
    IF \E i \in 1..Len(list) : list[i] \in launchable
    THEN list[CHOOSE i \in 1..Len(list) :
                 /\ list[i] \in launchable
                 /\ \A j \in 1..(i - 1) : list[j] \notin launchable]
    ELSE ""

\* What start_session sets up for a session at lines 137-198:
\*   sup:         the supervising task spawned at line 154:
\*                "spawned" (not polled yet) | "joining" | "done" | "aborted"
\*   stdin_task:  the input pump: "none" | "running" | "done"
\*   stdout_task: the output pump: "none" | "running" | "eof" | "error"
\*   queue:       the chunks in the unbounded channel
\*   out:         the shell-output events emitted
\*   closed:      the shell-closed events emitted
\*   removed:     close_session or close_all_sessions removed its sender
\* and, for the input pump taken one await at a time:
\*   stdin_at:    the await the input pump is at: "recv" | "write_all" |
\*                "flush"
\*   data:        the chunk the last recv gave it
\*   sent:        history: the chunks the sender accepted, in order
\*   wire:        history: what happened on the remote input stream
NewSession ==
    [sup |-> "spawned", stdin_task |-> "none", stdout_task |-> "none",
     queue |-> <<>>, out |-> 0, closed |-> 0, removed |-> FALSE,
     stdin_at |-> "recv", data |-> "", sent |-> <<>>, wire |-> <<>>]

SessionIds == 1..MaxSessions

\* The ids of the start_session calls that have not returned yet: no caller
\* has seen them (Uuid::new_v4, line 47).
InFlight ==
    {loc[c].sid : c \in {x \in Callers : pc[x] \in {"sh_attach",
                                         "sh_senders", "sh_sessions"}}}

\* The session ids a caller can pass to send_input and close_session: the
\* ids that start_session has generated and that are not in flight, and 0
\* for an id that no start_session generates.
CallerIds == ((1..nextSession) \ InFlight) \cup {0}

\* The receiver of the channel exists: it is held by the supervising task
\* until that spawns the input pump, then by the input pump.
ReceiverOpen(s) ==
    \/ session[s].stdin_task = "running"
    \/ session[s].stdin_task = "none" /\ session[s].sup = "spawned"

\* A start_session that attaches to every pod it finds.
CallStartSession_Unvalidated(c) ==
    /\ pc[c] = "idle"
    /\ nextSession < MaxSessions
    /\ nextSession' = nextSession + 1
    /\ op' = [op EXCEPT ![c] = "start_session"]
    /\ loc' = [loc EXCEPT ![c].sid = nextSession + 1]
    /\ \E req \in ShellRequests, found \in BOOLEAN :
          IF ~found
          THEN /\ ret' = [ret EXCEPT ![c] = Err("Failed to get pod details")]
               /\ pc' = [pc EXCEPT ![c] = "returned"]
               /\ UNCHANGED arg
          ELSE /\ arg' = [arg EXCEPT ![c] = AttachRequest(req)]
               /\ pc' = [pc EXCEPT ![c] = "sh_attach"]
               /\ UNCHANGED ret
    /\ UNCHANGED <<pfVars, dbVars, stdin_senders, sessions, session>>

\* start_session lines 47-91: a fresh id, pods.get and the validation.
CallStartSession(c) ==
    /\ pc[c] = "idle"
    /\ nextSession < MaxSessions
    /\ nextSession' = nextSession + 1
    /\ op' = [op EXCEPT ![c] = "start_session"]
    /\ loc' = [loc EXCEPT ![c].sid = nextSession + 1]
    /\ \E req \in ShellRequests, found \in BOOLEAN :
          IF ~found
          THEN /\ ret' = [ret EXCEPT ![c] = Err("Failed to get pod details")]
               /\ pc' = [pc EXCEPT ![c] = "returned"]
               /\ UNCHANGED arg
          ELSE IF ValidationError(req) # ""
          THEN /\ ret' = [ret EXCEPT ![c] = Err(ValidationError(req))]
               /\ pc' = [pc EXCEPT ![c] = "returned"]
               /\ UNCHANGED arg
          ELSE /\ arg' = [arg EXCEPT ![c] = AttachRequest(req)]
               /\ pc' = [pc EXCEPT ![c] = "sh_attach"]
               /\ UNCHANGED ret
    /\ UNCHANGED <<pfVars, dbVars, stdin_senders, sessions, session>>

\* start_session lines 93-135: exec the shells one after another.
ShellAttach(c) ==
    /\ pc[c] = "sh_attach"
    /\ \E launchable \in SUBSET {"/bin/bash", "/bin/sh", "/bin/ash",
                                 "/bin/zsh"} :
          IF FirstAttached(ShellsToTry(arg[c]), launchable) = ""
          THEN /\ ret' = [ret EXCEPT
                             ![c] = Err("Failed to execute shell")]
               /\ pc' = [pc EXCEPT ![c] = "returned"]
          ELSE /\ pc' = [pc EXCEPT ![c] = "sh_senders"]
               /\ UNCHANGED ret
    /\ arg' = [arg EXCEPT ![c] = NoArg]
    /\ UNCHANGED <<pfVars, dbVars, shellVars, op, loc>>

\* start_session lines 112-114: the state of the loop over shells_to_try
\* before its first turn. `tried` is the history of the pods.exec calls made
\* so far, `last_error` the shell whose exec failed last ("" for None) and
\* `attached` the shell whose exec succeeded ("" for None).
AttachLoop == [tried |-> <<>>, last_error |-> "", attached |-> ""]

\* The loop state of the start_session that caller c runs.
LoopOf(c) == IF loc[c].db = NoArg THEN AttachLoop ELSE loc[c].db

\* start_session lines 129-135: the error of ok_or_else, which carries the
\* text of last_error.
ExecFailed(last_error) ==
    [Err("Failed to execute shell") EXCEPT
        !.id = IF last_error = "" THEN "Unknown error" ELSE last_error]

\* A loop without the break: it goes on to the next shell after a launch
\* that succeeded, and keeps the last process that was attached.
ShellExec_Racing(c) ==
    /\ pc[c] = "sh_attach"
    /\ LET list == ShellsToTry(arg[c])
           i == Len(LoopOf(c).tried) + 1
       IN \E ok \in BOOLEAN :
             LET after == [tried |-> Append(LoopOf(c).tried,
                                            [shell |-> list[i], ok |-> ok]),
                           last_error |-> IF ok THEN LoopOf(c).last_error
                                          ELSE list[i],
                           attached |-> IF ok THEN list[i]
                                        ELSE LoopOf(c).attached]
             IN /\ loc' = [loc EXCEPT ![c].db = after]
                /\ IF i < Len(list)
                   THEN UNCHANGED <<pc, ret, arg>>
                   ELSE /\ arg' = [arg EXCEPT ![c] = NoArg]
                        /\ IF after.attached # ""
                           THEN /\ pc' = [pc EXCEPT ![c] = "sh_senders"]
                                /\ UNCHANGED ret
                           ELSE /\ ret' = [ret EXCEPT ![c] =
                                              ExecFailed(after.last_error)]
                                /\ pc' = [pc EXCEPT ![c] = "returned"]
    /\ UNCHANGED <<pfVars, dbVars, shellVars, op>>

\* start_session lines 116-135, one turn of the loop: pods.exec with the
\* next shell of the list. A launch that succeeds ends the loop (break) and
\* start_session goes on to create the channel; a launch that fails is
\* remembered in last_error, and after the last shell of the list the error
\* of ok_or_else is returned with `?`.
ShellExec(c) ==
    /\ pc[c] = "sh_attach"
    /\ LET list == ShellsToTry(arg[c])
           i == Len(LoopOf(c).tried) + 1
       IN \E ok \in BOOLEAN :
             LET after == [tried |-> Append(LoopOf(c).tried,
                                            [shell |-> list[i], ok |-> ok]),
                           last_error |-> IF ok THEN LoopOf(c).last_error
                                          ELSE list[i],
                           attached |-> IF ok THEN list[i] ELSE ""]
             IN /\ loc' = [loc EXCEPT ![c].db = after]
                /\ IF ok
                   THEN /\ pc' = [pc EXCEPT ![c] = "sh_senders"]
                        /\ arg' = [arg EXCEPT ![c] = NoArg]
                        /\ UNCHANGED ret
                   ELSE IF i < Len(list)
                   THEN UNCHANGED <<pc, ret, arg>>
                   ELSE /\ ret' = [ret EXCEPT ![c] =
                                      ExecFailed(after.last_error)]
                        /\ pc' = [pc EXCEPT ![c] = "returned"]
                        /\ arg' = [arg EXCEPT ![c] = NoArg]
    /\ UNCHANGED <<pfVars, dbVars, shellVars, op>>

\* start_session lines 137-198: the channel is created, its sender is
\* stored under the write lock of stdin_senders, and the supervising task
\* is spawned.
ShellStoreSender(c) ==
    /\ pc[c] = "sh_senders"
    /\ stdin_senders' = stdin_senders \cup {loc[c].sid}
    /\ session' = MapInsert(session, loc[c].sid, NewSession)
    /\ pc' = [pc EXCEPT ![c] = "sh_sessions"]
    /\ UNCHANGED <<pfVars, dbVars, sessions, nextSession, op, arg, loc, ret>>

\* start_session lines 200-206: the JoinHandle is stored under the write
\* lock of sessions and the id is returned.
ShellStoreSession(c) ==
    /\ pc[c] = "sh_sessions"
    /\ sessions' = sessions \cup {loc[c].sid}
    /\ ret' = [ret EXCEPT ![c] = Ok("", loc[c].sid)]
    /\ pc' = [pc EXCEPT ![c] = "returned"]
    /\ UNCHANGED <<pfVars, dbVars, stdin_senders, session, nextSession, op,
                   arg, loc>>

\* The supervising task runs for the first time, lines 154-194: it spawns
\* the two pumps and waits for both.
SupervisorStart(s) ==
    /\ s \in DOMAIN session
    /\ session[s].sup = "spawned"
    /\ session' = [session EXCEPT ![s].sup = "joining",
                                  ![s].stdin_task = "running",
                                  ![s].stdout_task = "running"]
    /\ UNCHANGED <<pfVars, dbVars, stdin_senders, sessions, nextSession,
                   taskVars>>

\* The input pump, lines 157-168: it writes and flushes the next chunk and
\* ends at the first error; it ends when the channel is empty and its
\* sender was dropped.
InputPump(s) ==
    /\ s \in DOMAIN session
    /\ session[s].stdin_task = "running"
    /\ IF session[s].queue # <<>>
       THEN \E written \in BOOLEAN :
               session' = [session EXCEPT
                   ![s].queue = IF written THEN Tail(@) ELSE <<>>,
                   ![s].stdin_task = IF written THEN "running" ELSE "done"]
       ELSE /\ s \notin stdin_senders
            /\ session' = [session EXCEPT ![s].stdin_task = "done"]
    /\ UNCHANGED <<pfVars, dbVars, stdin_senders, sessions, nextSession,
                   taskVars>>

\* The output pump, lines 175-190: it emits a shell-output event for every
\* chunk it reads and ends at end-of-stream or at a read error.
OutputPump(s) ==
    /\ s \in DOMAIN session
    /\ session[s].stdout_task = "running"
    /\ \E read \in {"chunk", "eof", "error"} :
          IF read = "chunk"
          THEN /\ session[s].out < MaxOutput
               /\ session' = [session EXCEPT ![s].out = @ + 1]
          ELSE session' = [session EXCEPT ![s].stdout_task = read]
    /\ UNCHANGED <<pfVars, dbVars, stdin_senders, sessions, nextSession,
                   taskVars>>

\* The output pump of session s has ended, lines 179 and 184-187.
OutputEnded(s) == session[s].stdout_task \in {"eof", "error"}

\* A supervising task that goes on when the first of its pumps has ended.
SupervisorJoin_Either(s) ==
    /\ s \in DOMAIN session
    /\ session[s].sup = "joining"
    /\ \/ session[s].stdin_task = "done"
       \/ OutputEnded(s)
    /\ session' = [session EXCEPT ![s].sup = "done", ![s].closed = @ + 1]
    /\ UNCHANGED <<pfVars, dbVars, stdin_senders, sessions, nextSession,
                   taskVars>>

\* The supervising task, lines 193-197: when both pumps have ended it emits
\* the shell-closed event and ends.
SupervisorJoin(s) ==
    /\ s \in DOMAIN session
    /\ session[s].sup = "joining"
    /\ session[s].stdin_task = "done"
    /\ OutputEnded(s)
    /\ session' = [session EXCEPT ![s].sup = "done", ![s].closed = @ + 1]
    /\ UNCHANGED <<pfVars, dbVars, stdin_senders, sessions, nextSession,
                   taskVars>>

\* JoinHandle::abort on the supervising tasks of the sessions in `ids`: a
\* task that has not ended is cancelled. The pumps it has spawned are
\* separate tasks and run on; a task cancelled before its first poll drops
\* the receiver and the streams it was given.
Abort(ss, ids) ==
    [s \in DOMAIN ss |->
        IF s \in ids /\ ss[s].sup \in {"spawned", "joining"}
        THEN [ss[s] EXCEPT !.sup = "aborted"]
        ELSE ss[s]]

\* The senders of the sessions in `ids` are removed from stdin_senders.
MarkRemoved(ss, ids) ==
    [s \in DOMAIN ss |->
        IF s \in ids THEN [ss[s] EXCEPT !.removed = TRUE] ELSE ss[s]]

\* send_input, lines 209-219: under the read lock, send on the session's
\* sender; the send fails when the receiver is gone.
SendInput(c) ==
    /\ pc[c] = "idle"
    /\ \E s \in CallerIds, data \in Chunks :
          /\ arg' = [arg EXCEPT ![c] = [session_id |-> s]]
          /\ IF s \notin stdin_senders
             THEN /\ ret' = [ret EXCEPT
                                ![c] = Err("Shell session not found")]
                  /\ UNCHANGED session
             ELSE IF ~ReceiverOpen(s)
             THEN /\ ret' = [ret EXCEPT ![c] =
                        Err("Failed to send input to shell session")]
                  /\ UNCHANGED session
             ELSE /\ Len(session[s].queue) < MaxQueue
                  /\ session' = [session EXCEPT
                                    ![s].queue = Append(@, data)]
                  /\ ret' = [ret EXCEPT ![c] = Ok("", s)]
    /\ op' = [op EXCEPT ![c] = "send_input"]
    /\ pc' = [pc EXCEPT ![c] = "returned"]
    /\ UNCHANGED <<pfVars, dbVars, stdin_senders, sessions, nextSession, loc>>

\* ------------------------------------------- the input pump, await by await
\* Chunks one session's sender accepts in one run (caps the history).
MaxSent == 3

\* send_input, lines 209-219, with the history of the accepted chunks: the
\* unbounded channel takes every chunk while its receiver exists.
SendInputChunk(c) ==
    /\ pc[c] = "idle"
    /\ \E s \in CallerIds, data \in Chunks :
          /\ arg' = [arg EXCEPT ![c] = [session_id |-> s]]
          /\ IF s \notin stdin_senders
             THEN /\ ret' = [ret EXCEPT
                                ![c] = Err("Shell session not found")]
                  /\ UNCHANGED session
             ELSE IF ~ReceiverOpen(s)
             THEN /\ ret' = [ret EXCEPT ![c] =
                        Err("Failed to send input to shell session")]
                  /\ UNCHANGED session
             ELSE /\ Len(session[s].sent) < MaxSent
                  /\ session' = [session EXCEPT
                                    ![s].queue = Append(@, data),
                                    ![s].sent = Append(@, data)]
                  /\ ret' = [ret EXCEPT ![c] = Ok("", s)]
    /\ op' = [op EXCEPT ![c] = "send_input"]
    /\ pc' = [pc EXCEPT ![c] = "returned"]
    /\ UNCHANGED <<pfVars, dbVars, stdin_senders, sessions, nextSession, loc>>

\* An input pump that takes the chunk enqueued last.
PumpRecv_Newest(s) ==
    /\ s \in DOMAIN session
    /\ session[s].stdin_task = "running"
    /\ session[s].stdin_at = "recv"
    /\ IF session[s].queue # <<>>
       THEN LET q == session[s].queue
            IN session' = [session EXCEPT
                              ![s].data = q[Len(q)],
                              ![s].queue = SubSeq(q, 1, Len(q) - 1),
                              ![s].stdin_at = "write_all"]
       ELSE /\ s \notin stdin_senders
            /\ session' = [session EXCEPT ![s].stdin_task = "done"]
    /\ UNCHANGED <<pfVars, dbVars, stdin_senders, sessions, nextSession,
                   taskVars>>

\* The input pump, line 158: stdin_rx.recv().await gives the oldest chunk of
\* the channel; it gives None, which ends the loop and the task, when the
\* channel is empty and its sender was dropped.
PumpRecv(s) ==
    /\ s \in DOMAIN session
    /\ session[s].stdin_task = "running"
    /\ session[s].stdin_at = "recv"
    /\ IF session[s].queue # <<>>
       THEN session' = [session EXCEPT
                           ![s].data = Head(session[s].queue),
                           ![s].queue = Tail(@),
                           ![s].stdin_at = "write_all"]
       ELSE /\ s \notin stdin_senders
            /\ session' = [session EXCEPT ![s].stdin_task = "done"]
    /\ UNCHANGED <<pfVars, dbVars, stdin_senders, sessions, nextSession,
                   taskVars>>

\* The pump leaves its loop with break: the task ends and drops the
\* receiver, and with it the chunks that are still in the channel.
PumpBreak(ss, s, event) ==
    [ss EXCEPT ![s].wire = Append(@, event),
               ![s].stdin_task = "done",
               ![s].stdin_at = "recv",
               ![s].data = "",
               ![s].queue = <<>>]

\* The input pump, lines 159-162: write_all(data); an error ends the loop.
PumpWrite(s) ==
    /\ s \in DOMAIN session
    /\ session[s].stdin_task = "running"
    /\ session[s].stdin_at = "write_all"
    /\ \/ session' = [session EXCEPT
                         ![s].wire = Append(@, [op |-> "write",
                                                data |-> session[s].data]),
                         ![s].stdin_at = "flush"]
       \/ session' = PumpBreak(session, s, [op |-> "write_error",
                                            data |-> session[s].data])
    /\ UNCHANGED <<pfVars, dbVars, stdin_senders, sessions, nextSession,
                   taskVars>>

\* The input pump, lines 163-166: flush(); an error ends the loop.
PumpFlush(s) ==
    /\ s \in DOMAIN session
    /\ session[s].stdin_task = "running"
    /\ session[s].stdin_at = "flush"
    /\ \/ session' = [session EXCEPT
                         ![s].wire = Append(@, [op |-> "flush", data |-> ""]),
                         ![s].stdin_at = "recv",
                         ![s].data = ""]
       \/ session' = PumpBreak(session, s, [op |-> "flush_error",
                                            data |-> ""])
    /\ UNCHANGED <<pfVars, dbVars, stdin_senders, sessions, nextSession,
                   taskVars>>

\* A close_session that leaves the sender in stdin_senders.
CloseSessionSenders_Kept(c) ==
    /\ pc[c] = "idle"
    /\ \E s \in CallerIds :
          /\ arg' = [arg EXCEPT ![c] = [session_id |-> s]]
          /\ session' = MarkRemoved(session, {s} \cap stdin_senders)
    /\ op' = [op EXCEPT ![c] = "close_session"]
    /\ pc' = [pc EXCEPT ![c] = "sh_close"]
    /\ UNCHANGED <<pfVars, dbVars, stdin_senders, sessions, nextSession,
                   loc, ret>>

\* close_session, lines 222-226: remove the sender under the write lock of
\* stdin_senders.
CloseSessionSenders(c) ==
    /\ pc[c] = "idle"
    /\ \E s \in CallerIds :
          /\ arg' = [arg EXCEPT ![c] = [session_id |-> s]]
          /\ stdin_senders' = stdin_senders \ {s}
          /\ session' = MarkRemoved(session, {s} \cap stdin_senders)
    /\ op' = [op EXCEPT ![c] = "close_session"]
    /\ pc' = [pc EXCEPT ![c] = "sh_close"]
    /\ UNCHANGED <<pfVars, dbVars, sessions, nextSession, loc, ret>>

\* A close_session that aborts the supervising task and leaves its handle
\* in sessions.
CloseSessionAbort_Kept(c) ==
    /\ pc[c] = "sh_close"
    /\ session' = Abort(session, {arg[c].session_id} \cap sessions)
    /\ ret' = [ret EXCEPT ![c] = Ok("", arg[c].session_id)]
    /\ pc' = [pc EXCEPT ![c] = "returned"]
    /\ UNCHANGED <<pfVars, dbVars, stdin_senders, sessions, nextSession, op,
                   arg, loc>>

\* A close_session that reports a session it does not find in sessions.
CloseSessionAbort_Strict(c) ==
    /\ pc[c] = "sh_close"
    /\ sessions' = sessions \ {arg[c].session_id}
    /\ session' = Abort(session, {arg[c].session_id} \cap sessions)
    /\ ret' = [ret EXCEPT ![c] =
                  IF arg[c].session_id \in sessions
                  THEN Ok("", arg[c].session_id)
                  ELSE Err("Shell session not found")]
    /\ pc' = [pc EXCEPT ![c] = "returned"]
    /\ UNCHANGED <<pfVars, dbVars, stdin_senders, nextSession, op, arg, loc>>

\* close_session, lines 228-239: remove the JoinHandle under the write lock
\* of sessions and abort the supervising task.
CloseSessionAbort(c) ==
    /\ pc[c] = "sh_close"
    /\ sessions' = sessions \ {arg[c].session_id}
    /\ session' = Abort(session, {arg[c].session_id} \cap sessions)
    /\ ret' = [ret EXCEPT ![c] = Ok("", arg[c].session_id)]
    /\ pc' = [pc EXCEPT ![c] = "returned"]
    /\ UNCHANGED <<pfVars, dbVars, stdin_senders, nextSession, op, arg, loc>>

\* A close_all_sessions that goes on to the sessions without clearing the
\* senders.
CloseAllSenders_Kept(c) ==
    /\ pc[c] = "idle"
    /\ arg' = [arg EXCEPT ![c] = NoArg]
    /\ op' = [op EXCEPT ![c] = "close_all_sessions"]
    /\ pc' = [pc EXCEPT ![c] = "sh_close_all"]
    /\ UNCHANGED <<pfVars, dbVars, shellVars, loc, ret>>

\* close_all_sessions, lines 243-247: clear stdin_senders.
CloseAllSenders(c) ==
    /\ pc[c] = "idle"
    /\ stdin_senders' = {}
    /\ session' = MarkRemoved(session, stdin_senders)
    /\ arg' = [arg EXCEPT ![c] = NoArg]
    /\ op' = [op EXCEPT ![c] = "close_all_sessions"]
    /\ pc' = [pc EXCEPT ![c] = "sh_close_all"]
    /\ UNCHANGED <<pfVars, dbVars, sessions, nextSession, loc, ret>>

\* A close_all_sessions that joins the tasks it aborts: it returns only
\* when both pumps of every drained session have ended.
CloseAllAbort_Joining(c) ==
    /\ pc[c] = "sh_close_all"
    /\ \A s \in sessions :
          /\ session[s].stdin_task # "running"
          /\ session[s].stdout_task # "running"
    /\ sessions' = {}
    /\ session' = Abort(session, sessions)
    /\ ret' = [ret EXCEPT ![c] = Ok("", 0)]
    /\ pc' = [pc EXCEPT ![c] = "returned"]
    /\ UNCHANGED <<pfVars, dbVars, stdin_senders, nextSession, op, arg, loc>>

\* close_all_sessions, lines 249-260: drain sessions, aborting every
\* supervising task.
CloseAllAbort(c) ==
    /\ pc[c] = "sh_close_all"
    /\ sessions' = {}
    /\ session' = Abort(session, sessions)
    /\ ret' = [ret EXCEPT ![c] = Ok("", 0)]
    /\ pc' = [pc EXCEPT ![c] = "returned"]
    /\ UNCHANGED <<pfVars, dbVars, stdin_senders, nextSession, op, arg, loc>>

\* ======================================================================
\* Initial state and specifications
\* ======================================================================

\* PortForwardManager::new, ShellManager::new and the empty ConnectionManager
\* that lib.rs hands to tauri; no command is running.
Init ==
    /\ forwards = EmptyMap
    /\ children = EmptyMap
    /\ okStarts = NoStarts
    /\ connections = EmptyMap
    /\ connLock = [writer |-> "", readers |-> {}]
    /\ pool = EmptyMap
    /\ connLog = EmptyMap
    /\ nextConn = 0
    /\ stdin_senders = {}
    /\ sessions = {}
    /\ session = EmptyMap
    /\ nextSession = 0
    /\ pc = [c \in Callers |-> "idle"]
    /\ op = [c \in Callers |-> "none"]
    /\ arg = [c \in Callers |-> NoArg]
    /\ loc = [c \in Callers |-> NoLoc]
    /\ ret = [c \in Callers |-> NoRet]

\* The port-forward commands, run concurrently by the callers.
PortForwardNext ==
    \/ \E c \in Callers : CallStartPortForward(c)
    \/ \E c \in Callers : StartCheck(c)
    \/ \E c \in Callers : StartSpawn(c)
    \/ \E c \in Callers : StartInsert(c)
    \/ \E c \in Callers : StopPortForward(c)
    \/ \E c \in Callers : ListPortForwards(c)
    \/ \E c \in Callers : StopAll(c)
    \/ \E p \in 1..MaxChildren : ChildExit(p)
    \/ \E c \in Callers : Return(c)

Spec == Init /\ [][PortForwardNext]_vars

\* The port-forward commands for resources with '-' in their names.
TupleNext ==
    \/ \E c \in Callers : CallStartPortForwardNamed(c)
    \/ \E c \in Callers : StartCheck(c)
    \/ \E c \in Callers : StartSpawn(c)
    \/ \E c \in Callers : StartInsert(c)
    \/ \E c \in Callers : StopPortForward(c)
    \/ \E p \in 1..MaxChildren : ChildExit(p)
    \/ \E c \in Callers : Return(c)

TupleSpec == Init /\ [][TupleNext]_vars

\* The database commands, together with the port-forward steps they run,
\* the liveness sweep and the subprocess exits.
DatabaseNext ==
    \/ \E c \in Callers : CallDbConnect(c)
    \/ \E c \in Callers : StartCheck(c)
    \/ \E c \in Callers : StartSpawn(c)
    \/ \E c \in Callers : StartInsert(c)
    \/ \E c \in Callers : DbCreatePool(c)
    \/ \E c \in Callers : DbTestConnection(c)
    \/ \E c \in Callers : DbRegister(c)
    \/ \E c \in Callers : DbDisconnect(c)
    \/ \E c \in Callers : DbClosePool(c)
    \/ \E c \in Callers : DbCloseStop(c)
    \/ \E c \in Callers : ListPortForwards(c)
    \/ \E p \in 1..MaxChildren : ChildExit(p)
    \/ \E c \in Callers : Return(c)

DbSpec == Init /\ [][DatabaseNext]_vars

\* The database commands together with the steady-state commands: the
\* health check and the queries.
DbOpsNext ==
    \/ DatabaseNext
    \/ \E c \in Callers : DbHealthCheck(c)
    \/ \E c \in Callers : DbHealthGet(c)
    \/ \E c \in Callers : DbHealthQuery(c)
    \/ \E c \in Callers : DbQuery(c)
    \/ \E c \in Callers : DbQueryGet(c)
    \/ \E c \in Callers : DbQueryRun(c)

DbOpsSpec == Init /\ [][DbOpsNext]_vars

\* The database commands together with the port-forward commands the user
\* interface runs directly.
DbPfNext ==
    \/ DatabaseNext
    \/ \E c \in Callers : CallStartPortForward(c)
    \/ \E c \in Callers : StopPortForward(c)

DbPfSpec == Init /\ [][DbPfNext]_vars

\* db_connect calls that run side by side, with the port-forward steps they
\* run and the subprocess exits.
PortsNext ==
    \/ \E c \in Callers : CallDbConnectConcurrent(c)
    \/ \E c \in Callers : StartCheck(c)
    \/ \E c \in Callers : StartSpawn(c)
    \/ \E c \in Callers : StartInsert(c)
    \/ \E c \in Callers : DbCreatePool(c)
    \/ \E c \in Callers : DbTestConnection(c)
    \/ \E c \in Callers : DbRegister(c)
    \/ \E p \in 1..MaxChildren : ChildExit(p)
    \/ \E c \in Callers : Return(c)

PortsSpec == Init /\ [][PortsNext]_vars

\* The shell commands, the supervising tasks and the pumps.
ShellNext ==
    \/ \E c \in Callers : CallStartSession(c)
    \/ \E c \in Callers : ShellAttach(c)
    \/ \E c \in Callers : ShellStoreSender(c)
    \/ \E c \in Callers : ShellStoreSession(c)
    \/ \E s \in SessionIds : SupervisorStart(s)
    \/ \E s \in SessionIds : InputPump(s)
    \/ \E s \in SessionIds : OutputPump(s)
    \/ \E s \in SessionIds : SupervisorJoin(s)
    \/ \E c \in Callers : SendInput(c)
    \/ \E c \in Callers : CloseSessionSenders(c)
    \/ \E c \in Callers : CloseSessionAbort(c)
    \/ \E c \in Callers : CloseAllSenders(c)
    \/ \E c \in Callers : CloseAllAbort(c)
    \/ \E c \in Callers : Return(c)

ShellSpec == Init /\ [][ShellNext]_vars

\* The tokio runtime runs every spawned task that can make a step, and a
\* command that was invoked runs to its end.
ShellFairness ==
    /\ \A s \in SessionIds :
          /\ WF_vars(SupervisorStart(s))
          /\ WF_vars(InputPump(s))
          /\ WF_vars(OutputPump(s))
          /\ WF_vars(SupervisorJoin(s))
    /\ \A c \in Callers :
          /\ WF_vars(ShellAttach(c))
          /\ WF_vars(ShellStoreSender(c))
          /\ WF_vars(ShellStoreSession(c))
          /\ WF_vars(CloseSessionAbort(c))
          /\ WF_vars(CloseAllAbort(c))

FairShellSpec == Init /\ [][ShellNext]_vars /\ ShellFairness

\* start_session with its loop over the shells taken one pods.exec at a
\* time, together with the commands that close sessions.
AttachNext ==
    \/ \E c \in Callers : CallStartSession(c)
    \/ \E c \in Callers : ShellExec(c)
    \/ \E c \in Callers : ShellStoreSender(c)
    \/ \E c \in Callers : ShellStoreSession(c)
    \/ \E c \in Callers : CloseSessionSenders(c)
    \/ \E c \in Callers : CloseSessionAbort(c)
    \/ \E c \in Callers : CloseAllSenders(c)
    \/ \E c \in Callers : CloseAllAbort(c)
    \/ \E c \in Callers : Return(c)

AttachSpec == Init /\ [][AttachNext]_vars

\* The shell commands with the input pump taken one await at a time, for
\* one session: the pump of a session works on nothing but the channel and
\* the stream of that session.
PumpNext ==
    \/ \E c \in Callers : nextSession = 0 /\ CallStartSession(c)
    \/ \E c \in Callers : ShellAttach(c)
    \/ \E c \in Callers : ShellStoreSender(c)
    \/ \E c \in Callers : ShellStoreSession(c)
    \/ \E s \in SessionIds : SupervisorStart(s)
    \/ \E c \in Callers : SendInputChunk(c)
    \/ \E s \in SessionIds : PumpRecv(s)
    \/ \E s \in SessionIds : PumpWrite(s)
    \/ \E s \in SessionIds : PumpFlush(s)
    \/ \E c \in Callers : CloseSessionSenders(c)
    \/ \E c \in Callers : CloseSessionAbort(c)
    \/ \E c \in Callers : Return(c)

\* The runtime polls the input pump whenever it can go on, and the writes
\* and flushes on the remote stream return.
PumpFairness ==
    \A s \in SessionIds :
        /\ WF_vars(PumpRecv(s))
        /\ WF_vars(PumpWrite(s))
        /\ WF_vars(PumpFlush(s))

FairPumpSpec == Init /\ [][PumpNext]_vars /\ PumpFairness

\* Shutdown: port-forwards and shell sessions are started and run, and
\* stop_all and close_all_sessions tear them down. The PortForwardManager
\* and the ShellManager are separate managed states that share no field and
\* no lock, so a behaviour works on one of them while the other is at rest.
PortForwardAtRest ==
    /\ forwards = EmptyMap
    /\ children = EmptyMap
    /\ \A c \in Callers : op[c] \notin {"start_port_forward", "stop_all"}

ShellAtRest ==
    /\ nextSession = 0
    /\ \A c \in Callers : op[c] \notin {"start_session", "close_all_sessions"}

TeardownNext ==
    \/ \E c \in Callers : ShellAtRest /\ CallStartPortForward(c)
    \/ \E c \in Callers : StartCheck(c)
    \/ \E c \in Callers : StartSpawn(c)
    \/ \E c \in Callers : StartInsert(c)
    \/ \E p \in 1..MaxChildren : ChildExit(p)
    \/ \E c \in Callers : ShellAtRest /\ StopAll(c)
    \/ \E c \in Callers : PortForwardAtRest /\ CallStartSession(c)
    \/ \E c \in Callers : ShellAttach(c)
    \/ \E c \in Callers : ShellStoreSender(c)
    \/ \E c \in Callers : ShellStoreSession(c)
    \/ \E s \in SessionIds : SupervisorStart(s)
    \/ \E s \in SessionIds : InputPump(s)
    \/ \E s \in SessionIds : OutputPump(s)
    \/ \E s \in SessionIds : SupervisorJoin(s)
    \/ \E c \in Callers : PortForwardAtRest /\ CloseAllSenders(c)
    \/ \E c \in Callers : CloseAllAbort(c)
    \/ \E c \in Callers : Return(c)

\* A command that was invoked runs to its end: the runtime polls the task
\* of close_all_sessions again when the sessions lock is free. Nothing is
\* assumed about the subprocesses, the supervising tasks and the pumps,
\* which may take any time.
TeardownFairness == \A c \in Callers : WF_vars(CloseAllAbort(c))

FairTeardownSpec == Init /\ [][TeardownNext]_vars /\ TeardownFairness

\* All commands of the three registries. The ShellManager shares no field
\* and no lock with the other two, and the direct port-forward commands
\* meet the database commands only in the critical sections of the forwards
\* mutex, in which nothing waits; so a behaviour runs the commands of one
\* of the three groups while the other two are at rest. No command waits
\* for a subprocess to exit, so the exits of the subprocesses are followed
\* only while the database commands are at rest.
DatabaseAtRest ==
    /\ nextConn = 0
    /\ \A c \in Callers :
          op[c] \notin {"db_connect", "db_disconnect", "db_health_check"}
                          \cup QueryOps

DirectAtRest ==
    /\ nextConn > 0 \/ (forwards = EmptyMap /\ children = EmptyMap)
    /\ \A c \in Callers :
          op[c] \notin {"start_port_forward", "stop_port_forward",
                        "list_port_forwards", "stop_all"}

\* tokio's RwLock is write-preferring: it queues its waiters in the order of
\* their requests, so a read() that arrives while the write() of db_connect
\* waits is served after that write().
NoWriterWaiting == \A d \in Callers : pc[d] # "db_register"

AllNext ==
    \/ \E c \in Callers :
          ShellAtRest /\ DatabaseAtRest /\ CallStartPortForward(c)
    \/ \E c \in Callers : StartCheck(c)
    \/ \E c \in Callers : StartSpawn(c)
    \/ \E c \in Callers : StartInsert(c)
    \/ \E c \in Callers :
          ShellAtRest /\ DatabaseAtRest /\ StopPortForward(c)
    \/ \E c \in Callers :
          ShellAtRest /\ DatabaseAtRest /\ ListPortForwards(c)
    \/ \E c \in Callers :
          ShellAtRest /\ DatabaseAtRest /\ StopAll(c)
    \/ \E p \in 1..MaxChildren : DatabaseAtRest /\ ChildExit(p)
    \/ \E c \in Callers :
          ShellAtRest /\ DirectAtRest /\ CallDbConnectConcurrent(c)
    \/ \E c \in Callers : DbCreatePool(c)
    \/ \E c \in Callers : DbTestConnection(c)
    \/ \E c \in Callers : DbRegister(c)
    \/ \E c \in Callers :
          ShellAtRest /\ DirectAtRest /\ DbDisconnect(c)
    \/ \E c \in Callers : DbClosePool(c)
    \/ \E c \in Callers : DbCloseStop(c)
    \/ \E c \in Callers :
          ShellAtRest /\ DirectAtRest /\ NoWriterWaiting /\ DbHealthCheck(c)
    \/ \E c \in Callers : DbHealthGet(c)
    \/ \E c \in Callers : DbHealthQuery(c)
    \/ \E c \in Callers :
          ShellAtRest /\ DirectAtRest /\ NoWriterWaiting /\ DbQuery(c)
    \/ \E c \in Callers : DbQueryGet(c)
    \/ \E c \in Callers : DbQueryRun(c)
    \/ \E c \in Callers :
          DirectAtRest /\ DatabaseAtRest /\ CallStartSession(c)
    \/ \E c \in Callers : ShellAttach(c)
    \/ \E c \in Callers : ShellStoreSender(c)
    \/ \E c \in Callers : ShellStoreSession(c)
    \/ \E c \in Callers :
          DirectAtRest /\ DatabaseAtRest /\ SendInput(c)
    \/ \E c \in Callers :
          DirectAtRest /\ DatabaseAtRest /\ CloseSessionSenders(c)
    \/ \E c \in Callers : CloseSessionAbort(c)
    \/ \E c \in Callers :
          DirectAtRest /\ DatabaseAtRest /\ CloseAllSenders(c)
    \/ \E c \in Callers : CloseAllAbort(c)
    \/ \E c \in Callers : Return(c)

\* The next step of the command that caller c runs, where it does not have
\* to wait for a lock.
OperationStep(c) ==
    \/ StartCheck(c) \/ StartSpawn(c) \/ StartInsert(c)
    \/ DbCreatePool(c) \/ DbTestConnection(c)
    \/ DbClosePool(c) \/ DbCloseStop(c)
    \/ DbHealthGet(c) \/ DbHealthQuery(c)
    \/ DbQueryGet(c) \/ DbQueryRun(c)
    \/ ShellAttach(c) \/ ShellStoreSender(c) \/ ShellStoreSession(c)
    \/ CloseSessionAbort(c) \/ CloseAllAbort(c)

\* The runtime polls every command that can go on, and every external call
\* (spawn, kill, exec, SQL round trip) returns. tokio's RwLock is fair: it
\* hands the lock to the tasks in the order in which they asked for it, so
\* the writer of db_connect gets the lock if it is free again and again.
AllFairness ==
    \A c \in Callers :
        /\ WF_vars(OperationStep(c))
        /\ SF_vars(DbRegister(c))

FairAllSpec == Init /\ [][AllNext]_vars /\ AllFairness

\* ======================================================================
\* Generated SQL
\* ======================================================================

\* The longest identifier that is quoted.
MaxIdentLen == 4

\* A string is the sequence of its characters; Quote is the double quote.
Quote == "\""
Chars == {"t", "_", Quote}
Identifiers == UNION {[1..n -> Chars] : n \in 0..MaxIdentLen}

\* str::replace("\"", "\"\""): every double quote, from left to right, is
\* replaced by two.
RECURSIVE ReplaceQuotes(_)
ReplaceQuotes(s) ==
    IF s = <<>> THEN <<>>
    ELSE (IF Head(s) = Quote THEN <<Quote, Quote>> ELSE <<Head(s)>>)
            \o ReplaceQuotes(Tail(s))

\* An identifier that is wrapped without its quotes being doubled.
quote_identifier_Raw(identifier) == <<Quote>> \o identifier \o <<Quote>>

\* quote_identifier, lines 492-494:
\* format!("\"{}\"", identifier.replace("\"", "\"\"")).
quote_identifier(identifier) ==
    <<Quote>> \o ReplaceQuotes(identifier) \o <<Quote>>

\* get_table_data, lines 210-214: the schema and the table of the request
\* are quoted for the SELECT it builds.
QuoteIdentifier(c) ==
    /\ pc[c] = "idle"
    /\ \E identifier \in Identifiers :
          /\ arg' = [arg EXCEPT ![c] = [identifier |-> identifier]]
          /\ ret' = [ret EXCEPT
                        ![c] = Ok(quote_identifier(identifier), 0)]
    /\ op' = [op EXCEPT ![c] = "quote_identifier"]
    /\ pc' = [pc EXCEPT ![c] = "returned"]
    /\ UNCHANGED <<pfVars, dbVars, shellVars, loc>>

QuoteNext ==
    \/ \E c \in Callers : QuoteIdentifier(c)
    \/ \E c \in Callers : Return(c)

QuoteSpec == Init /\ [][QuoteNext]_vars

\* ------------------------------------------------------- result conversion
\* The wire types of the columns a query can return, by the arm of
\* row_value_to_json that handles them.
TextTypes == {"text", "varchar", "char", "bpchar", "name"}
ScalarTypes ==
    {"bool", "int2", "int4", "int8", "float4", "float8", "json", "jsonb",
     "timestamp", "timestamptz", "date", "uuid", "numeric"}
KnownArrayTypes ==
    {"_text", "_varchar", "_char", "_bpchar", "_int2", "_int4", "_int8",
     "_float4", "_float8", "_bool"}
OtherArrayTypes == {"_uuid"}
OtherTypes == {"inet", "interval"}
ColumnTypes ==
    TextTypes \cup ScalarTypes \cup KnownArrayTypes \cup OtherArrayTypes
        \cup OtherTypes

\* What a column holds in a row: SQL NULL, a value, or, in a floating-point
\* or numeric column, NaN.
FloatTypes == {"float4", "float8", "numeric"}
ColumnValues(t) ==
    {"NULL", "value"} \cup (IF t \in FloatTypes THEN {"NaN"} ELSE {})

\* Row::try_get::<_, Option<T>>(idx): an error (the Rust type does not
\* accept the wire type, or the bytes do not convert), Ok(None) for NULL,
\* Ok(Some(_)) for a value.
TryGet(value) == IF value = "NULL" THEN {"err", "none"} ELSE {"err", "some"}

\* serde_json::Value
JsonNull == [kind |-> "null", text |-> ""]
Json(kind) == [kind |-> kind, text |-> ""]
JsonString(s) == [kind |-> "string", text |-> s]

\* .ok().flatten().map(..).unwrap_or(Value::Null)
OrNull(got, kind) == IF got = "some" THEN Json(kind) ELSE JsonNull

\* .ok().flatten().map(..).unwrap_or_else(|| Value::String(format!("<{}>",
\* col_type.name())))
OrPlaceholder(got, kind, t) ==
    IF got = "some" THEN Json(kind) ELSE JsonString("<" \o t \o ">")

\* row_value_to_json, lines 310-489. `first` is the outcome of the
\* try_get::<_, Option<String>> of lines 317-318, `got` the outcome of the
\* try_get of the arm that matches the type.
row_value_to_json(t, value, first, got) ==
    IF first # "some" /\ t \in TextTypes THEN JsonNull
    ELSE IF t = "bool" THEN OrNull(got, "bool")
    ELSE IF t \in {"int2", "int4", "int8"} THEN OrNull(got, "number")
    ELSE IF t \in FloatTypes
    THEN IF value = "NaN" THEN JsonNull ELSE OrNull(got, "number")
    ELSE IF t \in TextTypes THEN OrNull(got, "string")
    ELSE IF t \in {"json", "jsonb"} THEN OrNull(got, "json")
    ELSE IF t \in {"timestamp", "timestamptz", "date", "uuid"}
    THEN OrNull(got, "string")
    ELSE IF t \in KnownArrayTypes THEN OrNull(got, "array")
    ELSE IF t \in OtherArrayTypes THEN OrPlaceholder(got, "array", t)
    ELSE OrPlaceholder(got, "string", t)

\* execute_custom_query lines 250-259 and execute_query lines 287-296: a
\* value of a result row is converted. The text arms and the default arm
\* repeat the try_get of lines 317-318.
RowValueToJson(c) ==
    /\ pc[c] = "idle"
    /\ \E t \in ColumnTypes :
       \E value \in ColumnValues(t) :
       \E first \in TryGet(value), got \in TryGet(value) :
          /\ t \in TextTypes \cup OtherTypes => got = first
          /\ arg' = [arg EXCEPT ![c] = [col_type |-> t, value |-> value]]
          /\ ret' = [ret EXCEPT ![c] =
                Ok(row_value_to_json(t, value, first, got), 0)]
    /\ op' = [op EXCEPT ![c] = "row_value_to_json"]
    /\ pc' = [pc EXCEPT ![c] = "returned"]
    /\ UNCHANGED <<pfVars, dbVars, shellVars, loc>>

JsonNext ==
    \/ \E c \in Callers : RowValueToJson(c)
    \/ \E c \in Callers : Return(c)

JsonSpec == Init /\ [][JsonNext]_vars

\* ------------------------------------------------------- find_free_port
\* The ports the operating system can assign to a listener bound to port 0:
\* the ones above and the ends of the default dynamic ranges, 32768-60999 on
\* Linux and 49152-65535 on macOS and Windows.
AssignablePorts == EphemeralPorts \cup {32768, 60999, 49152, 65535}

\* The ports the probing listeners of find_free_port are bound to.
BoundPorts ==
    {loc[c].db.listener : c \in {x \in Callers : pc[x] = "ffp_bound"}}

\* find_free_port, lines 85-88: TcpListener::bind("127.0.0.1:0"); the
\* operating system assigns a port that nothing is bound to, or the bind
\* fails.
FindFreePortBind(c) ==
    /\ pc[c] = "idle"
    /\ op' = [op EXCEPT ![c] = "find_free_port"]
    /\ arg' = [arg EXCEPT ![c] = NoArg]
    /\ \/ \E p \in FreePorts \cup (AssignablePorts \ EphemeralPorts) :
             /\ p \notin BoundPorts
             /\ loc' = [loc EXCEPT ![c].db = [listener |-> p]]
             /\ pc' = [pc EXCEPT ![c] = "ffp_bound"]
             /\ UNCHANGED ret
       \/ /\ ret' = [ret EXCEPT ![c] = Err("Failed to find free port")]
          /\ pc' = [pc EXCEPT ![c] = "returned"]
          /\ UNCHANGED loc
    /\ UNCHANGED <<pfVars, dbVars, shellVars>>

\* A find_free_port whose listener outlives the call.
FindFreePortAddr_Holding(c) ==
    /\ pc[c] = "ffp_bound"
    /\ \/ ret' = [ret EXCEPT ![c] = Ok("", loc[c].db.listener)]
       \/ ret' = [ret EXCEPT ![c] = Err("Failed to get local address")]
    /\ pc' = [pc EXCEPT ![c] = "returned"]
    /\ UNCHANGED <<pfVars, dbVars, shellVars, op, arg, loc>>

\* find_free_port, lines 90-95: listener.local_addr(), whose error is
\* returned, then Ok(addr.port()); the listener is a local and is dropped,
\* which closes it, when the function returns either way.
FindFreePortAddr(c) ==
    /\ pc[c] = "ffp_bound"
    /\ \/ ret' = [ret EXCEPT ![c] = Ok("", loc[c].db.listener)]
       \/ ret' = [ret EXCEPT ![c] = Err("Failed to get local address")]
    /\ loc' = [loc EXCEPT ![c].db = NoArg]
    /\ pc' = [pc EXCEPT ![c] = "returned"]
    /\ UNCHANGED <<pfVars, dbVars, shellVars, op, arg>>

PortProbeNext ==
    \/ \E c \in Callers : FindFreePortBind(c)
    \/ \E c \in Callers : FindFreePortAddr(c)
    \/ \E c \in Callers : Return(c)

PortProbeSpec == Init /\ [][PortProbeNext]_vars

\* ======================================================================
\* Claims about the port-forward registry (checked under Spec)
\* ======================================================================

\* The registry entries that describe the tuple of request r.
EntriesFor(fw, r) ==
    {id \in DOMAIN fw :
        <<fw[id].info.resource_type, fw[id].info.namespace,
          fw[id].info.resource_name, fw[id].info.local_port>> = TupleOf(r)}

\* Caller c takes the check step of start_port_forward.
ChecksStart(c) == pc[c] = "pf_check" /\ pc'[c] # "pf_check"

\* C1: a start_port_forward whose tuple was started successfully before,
\* with no stop_port_forward, list_port_forwards or stop_all since, fails
\* with "Port forward already exists", spawns no subprocess, and leaves
\* exactly one registry entry for the tuple.
C1_SecondStartAlreadyExists ==
    [][\A c \in Callers :
        (ChecksStart(c) /\ PortForwardId(arg[c]) \in DOMAIN okStarts)
        => /\ ret'[c] = Err("Port forward already exists")
           /\ pc'[c] = "returned"
           /\ children' = children
           /\ Cardinality(EntriesFor(forwards', arg[c])) = 1]_vars

\* C1 witness: a second start of a started tuple has returned the error and
\* the registry holds the one entry of the first start.
C1_Witness ==
    \E c \in Callers :
        /\ pc[c] = "returned"
        /\ op[c] = "start_port_forward"
        /\ ret[c] = Err("Port forward already exists")
        /\ PortForwardId(arg[c]) \in DOMAIN okStarts
        /\ okStarts[PortForwardId(arg[c])] = 1
        /\ EntriesFor(forwards, arg[c]) = {PortForwardId(arg[c])}

\* A subprocess that has neither exited nor been sent a kill signal.
Live(p) == children[p].status = "running" /\ children[p].kill # "sent"

\* C2: at every moment at most one spawned subprocess that has neither
\* exited nor been sent a kill signal exists for any given tuple.
C2_AtMostOneLiveSubprocessPerTuple ==
    \A p, q \in ChildIds :
        (Live(p) /\ Live(q) /\ children[p].tuple = children[q].tuple)
        => p = q

\* C3: of the start_port_forward calls for one tuple with no stop in
\* between at most one returns a session (the others fail with the
\* already-exists error), and no subprocess of a returned session is killed
\* because another start replaced its handle.
C3_ConcurrentStartsExclusive ==
    /\ \A id \in DOMAIN okStarts : okStarts[id] <= 1
    /\ \A p \in ChildIds : ~children[p].replaced


\* ======================================================================
\* Claims about the database connections (checked under DbSpec)
\* ======================================================================

\* The steps that have succeeded on connection k, in order.
LogOf(k) == IF k \in DOMAIN connLog THEN connLog[k] ELSE <<>>

\* The positions of a step in the log of connection k.
Positions(k, step) == {i \in 1..Len(LogOf(k)) : LogOf(k)[i] = step}

\* Caller c has returned from the db_connect that made connection id k.
ReturnedFromConnect(c, status) ==
    /\ pc[c] = "returned"
    /\ op[c] = "db_connect"
    /\ ret[c].status = status

\* The registry entries whose subprocess was started for connection k.
OwnedEntries(k) ==
    {id \in DOMAIN forwards : children[forwards[id].process].owner = k}

\* C4: when DatabaseConnection::create fails after its port-forward was
\* started, the call returns an error and the port-forward it started is
\* no longer registered in the port-forward registry.
C4_FailedConnectUnwindsPortForward ==
    \A c \in Callers :
        (ReturnedFromConnect(c, "err")
            /\ Positions(loc[c].conn, "port_forward") # {})
        => OwnedEntries(loc[c].conn) = {}

\* C5: in every DatabaseConnection::close the pool is closed strictly before
\* stop_port_forward is called for the owned port-forward; the port-forward
\* is never stopped by close while the pool is open.
C5_PoolClosedBeforeTunnelStopped ==
    \A k \in DOMAIN connLog :
        \A j \in Positions(k, "stop_port_forward") :
            /\ pool[k] = "closed"
            /\ \E i \in Positions(k, "pool_close") : i < j

\* C5 witness: a close has run to its end, stop_port_forward included.
C5_Witness ==
    \E c \in Callers :
        /\ pc[c] = "returned"
        /\ op[c] = "db_disconnect"
        /\ Positions(loc[c].conn, "stop_port_forward") # {}

\* The steps a connection has gone through when it is registered.
ReadySteps == <<"port_forward", "pool", "test_query", "registered">>

\* The log of connection k starts with the steps of a ready connection.
Ready(k) ==
    /\ Len(LogOf(k)) >= Len(ReadySteps)
    /\ SubSeq(LogOf(k), 1, Len(ReadySteps)) = ReadySteps

\* C6: a connection id is in the connection registry (and is returned by
\* db_connect) only after its port-forward was started, its pool was created
\* and the test query succeeded, in this order; a db_connect that returns an
\* error leaves the connection registry unchanged.
C6_ReadinessGate ==
    /\ [](\A k \in DOMAIN connections : Ready(k))
    /\ [](\A c \in Callers :
            ReturnedFromConnect(c, "ok") => Ready(ret[c].num))
    /\ [][\A k \in DOMAIN connections' \ DOMAIN connections :
            \E c \in Callers :
                /\ pc[c] = "db_register"
                /\ ReturnedFromConnect(c, "ok")'
                /\ ret'[c].num = k]_vars
    /\ [][\A c \in Callers :
            (pc[c] # "returned" /\ ReturnedFromConnect(c, "err")')
            => connections' = connections]_vars

\* C6 witness: a db_connect has returned the id of its connection, which is
\* registered after exactly the steps of a ready connection and owns a
\* registered port-forward.
C6_Witness ==
    \E c \in Callers :
        /\ ReturnedFromConnect(c, "ok")
        /\ ret[c].num \in DOMAIN connections
        /\ LogOf(ret[c].num) = ReadySteps
        /\ OwnedEntries(ret[c].num) # {}

\* The send_input calls that return in this step, with the session id they
\* were given.
SendInputSteps ==
    {c \in Callers : pc[c] = "idle" /\ pc'[c] = "returned"
                     /\ op'[c] = "send_input"}

\* Session id s was never created, or its sender was removed by
\* close_session or close_all_sessions.
NotLive(s) == s \notin DOMAIN session \/ session[s].removed

\* C7: send_input on a session id that was never created, or that was
\* removed by close_session or close_all_sessions, returns an error,
\* enqueues nothing for any remote process, and leaves sessions and
\* stdin_senders unchanged.
C7_SendInputOnUnknownSessionFails ==
    [][\A c \in SendInputSteps :
          NotLive(arg'[c].session_id)
          => /\ ret'[c].status = "err"
             /\ session' = session
             /\ sessions' = sessions
             /\ stdin_senders' = stdin_senders]_vars

\* C7 witness: a send_input has returned "Shell session not found" for a
\* session that was started and then closed.
C7_Witness ==
    \E c \in Callers :
        /\ pc[c] = "returned"
        /\ op[c] = "send_input"
        /\ ret[c] = Err("Shell session not found")
        /\ arg[c].session_id \in DOMAIN session
        /\ session[arg[c].session_id].removed

\* C8: once the output pump of an active session has ended at end-of-stream,
\* every later send_input for that session id returns an error.
C8_SendInputAfterEofFails ==
    [][\A c \in SendInputSteps :
          (/\ arg'[c].session_id \in sessions
           /\ session[arg'[c].session_id].stdout_task = "eof")
          => ret'[c].status = "err"]_vars

\* C9: for every session the shell-closed event is emitted at most once, and
\* never while its input pump or its output pump is still running.
C9_ClosedEventOnceAfterBothPumps ==
    /\ [](\A s \in DOMAIN session : session[s].closed <= 1)
    /\ [][\A s \in DOMAIN session :
            (s \in DOMAIN session' /\ session'[s].closed > session[s].closed)
            => /\ session[s].stdin_task = "done"
               /\ OutputEnded(s)]_vars

\* C9 witness: the shell-closed event of a session was emitted.
C9_Witness ==
    \E s \in DOMAIN session :
        /\ session[s].closed = 1
        /\ session[s].sup = "done"

\* Both pumps of session s were started and have ended.
BothPumpsEnded(s) ==
    /\ s \in DOMAIN session
    /\ session[s].stdin_task = "done"
    /\ OutputEnded(s)

\* C10: for every session that became active, once both its pumps have
\* ended the shell-closed event is eventually emitted.
C10_ClosedEventEventuallyEmitted ==
    \A s \in SessionIds :
        BothPumpsEnded(s) ~> (s \in DOMAIN session /\ session[s].closed >= 1)

\* ======================================================================
\* Claims about the end of a shell session
\* ======================================================================

\* The output pump of session s has read end-of-stream.
AtEof(s) == s \in DOMAIN session /\ session[s].stdout_task = "eof"

\* The caller has acted on session s: its sender was removed by a close, or
\* a chunk accepted by send_input waits in its queue.
CallerActed(s) == session[s].removed \/ session[s].queue # <<>>

\* C11: when the remote output stream of an active session reaches
\* end-of-stream and the caller neither sends input nor closes the session
\* afterwards, both pumps eventually end and the shell-closed event is
\* emitted.
C11_NaturalEofEndsSession ==
    \A s \in SessionIds :
        AtEof(s) ~> (s \in DOMAIN session
                        /\ (session[s].closed >= 1 \/ CallerActed(s)))

\* A close_session(s) has returned to its caller, for a session that was
\* created.
CloseReturned(s) ==
    /\ s \in DOMAIN session
    /\ session[s].removed
    /\ s \notin sessions
    /\ \E c \in Callers :
          /\ pc[c] = "returned"
          /\ op[c] = "close_session"
          /\ arg[c].session_id = s

\* In this step the input pump of session s wrote a chunk to the remote
\* process.
Wrote(s) ==
    /\ session[s].stdin_task = "running"
    /\ session'[s].stdin_task = "running"
    /\ Len(session'[s].queue) < Len(session[s].queue)

\* In this step the output pump of session s emitted a shell-output event.
Emitted(s) == session'[s].out > session[s].out

\* C12: after close_session(id) has returned for an active session, the
\* output pump of that session emits no further shell-output event and the
\* input pump writes no further chunk to the remote process.
C12_CloseCancelsBothPumps ==
    [][\A s \in DOMAIN session :
          CloseReturned(s) => ~Emitted(s) /\ ~Wrote(s)]_vars

\* The callers that take a step of close_session in this step.
CloseSessionSteps ==
    {c \in Callers : /\ pc[c] \in {"idle", "sh_close"}
                     /\ pc'[c] # pc[c]
                     /\ op'[c] = "close_session"}

\* Everything the manager holds for the session ids other than s is the
\* same before and after this step.
OthersUnchanged(s) ==
    /\ sessions' \ {s} = sessions \ {s}
    /\ stdin_senders' \ {s} = stdin_senders \ {s}
    /\ \A t \in DOMAIN session \ {s} :
          t \in DOMAIN session' /\ session'[t] = session[t]

\* C13: after close_session(id) returns, neither sessions nor stdin_senders
\* contains id, and the entries of every other session id are unchanged.
C13_SlotVacatedAfterClose ==
    /\ [](\A c \in Callers :
            (pc[c] = "returned" /\ op[c] = "close_session")
            => /\ arg[c].session_id \notin sessions
               /\ arg[c].session_id \notin stdin_senders)
    /\ [][\A c \in CloseSessionSteps :
            OthersUnchanged(arg'[c].session_id)]_vars

\* C13 witness: close_session has returned for a session that was active
\* while another session is still registered in both maps.
C13_Witness ==
    \E c \in Callers, t \in sessions \cap stdin_senders :
        /\ pc[c] = "returned"
        /\ op[c] = "close_session"
        /\ arg[c].session_id \in DOMAIN session
        /\ session[arg[c].session_id].sup = "aborted"
        /\ arg[c].session_id # t

\* Nothing the shell manager holds changes in this step.
ShellUnchanged ==
    /\ sessions' = sessions
    /\ stdin_senders' = stdin_senders
    /\ session' = session

\* C14: close_session on an id that was already closed, or that was never
\* created, returns success and leaves both shell registries as they were:
\* each of its two removals is a no-op when its map does not hold the id.
C14_CloseSessionIdempotent ==
    [][\A c \in CloseSessionSteps :
          /\ (pc[c] = "idle" /\ arg'[c].session_id \notin stdin_senders)
             => ShellUnchanged
          /\ (pc[c] = "sh_close" /\ arg'[c].session_id \notin sessions)
             => ShellUnchanged
          /\ pc'[c] = "returned" => ret'[c].status = "ok"]_vars

\* C14 witness: two close_session calls for the same created session have
\* both returned success; only one of them found the entries to remove.
C14_Witness ==
    \E c, d \in Callers :
        /\ c # d
        /\ pc[c] = "returned" /\ op[c] = "close_session"
        /\ pc[d] = "returned" /\ op[d] = "close_session"
        /\ arg[c].session_id = arg[d].session_id
        /\ arg[c].session_id \in DOMAIN session
        /\ ret[c].status = "ok" /\ ret[d].status = "ok"

\* The precondition of a shell session: the pod is Running and the target
\* container has a status entry that reports ready.
Gate(a) ==
    /\ a.pod.phase = "Running"
    /\ \E cs \in a.pod.container_statuses :
          cs.name = a.container /\ cs.ready

\* The callers whose start_session leaves the validation in this step.
StartSessionSteps ==
    {c \in Callers : pc[c] = "idle" /\ op'[c] = "start_session"}

\* C15: start_session on a pod that is not Running, or whose target container
\* does not report ready, fails before any exec attempt, creates no inbound
\* queue, spawns no task and leaves both shell registries unchanged: only a
\* request that passes the gate reaches the attach, and a start_session that
\* does not reach it returns an error with nothing changed.
C15_PreconditionGate ==
    [][\A c \in StartSessionSteps :
          /\ pc'[c] = "sh_attach" => Gate(arg'[c])
          /\ pc'[c] # "sh_attach"
             => /\ pc'[c] = "returned"
                /\ ret'[c].status = "err"
                /\ ShellUnchanged]_vars

\* C15 witness: a start_session was refused for an unready container while
\* another session is registered.
C15_Witness ==
    \E c \in Callers, t \in sessions \cap stdin_senders :
        /\ pc[c] = "returned"
        /\ op[c] = "start_session"
        /\ ret[c] = Err("Container is not ready")
        /\ loc[c].sid \notin DOMAIN session
        /\ loc[c].sid # t

\* ======================================================================
\* Claims about list, stop and stop_all of the port-forward registry
\* ======================================================================

\* The callers whose list_port_forwards runs in this step.
ListSteps ==
    {c \in Callers : pc[c] = "idle" /\ op'[c] = "list_port_forwards"}

\* The registered ids whose subprocess is in the given state before the step.
EntriesIn(status) ==
    {id \in DOMAIN forwards : children[forwards[id].process].status = status}

\* list_port_forwards drops every entry whose subprocess has exited, and
\* returns only entries that were registered with a running subprocess.
SweepsExited(c) ==
    /\ EntriesIn("exited") \cap DOMAIN forwards' = {}
    /\ DOMAIN forwards' \subseteq EntriesIn("running")
    /\ ret'[c] = Ok("", Cardinality(DOMAIN forwards'))

\* The entry of id is the same before and after the step.
Retained(id) == id \in DOMAIN forwards' /\ forwards'[id] = forwards[id]

\* C16 as stated: list drops the entries of exited subprocesses, returns
\* only entries whose subprocess was seen running, and never removes the
\* entry of a subprocess that is still running.
C16_ListNeverRemovesRunning ==
    [][\A c \in ListSteps :
          /\ SweepsExited(c)
          /\ \A id \in EntriesIn("running") : Retained(id)]_vars

\* C16 amended: list drops the entries of exited subprocesses and returns
\* only entries whose subprocess was seen running; the entry of a running
\* subprocess is either retained as it is or, when its status check fails,
\* removed, and then a kill is issued to the subprocess by the drop of its
\* handle.
C16_ListPrunesExitedAndUnchecked ==
    [][\A c \in ListSteps :
          /\ SweepsExited(c)
          /\ \A id \in EntriesIn("running") :
                \/ Retained(id)
                \/ /\ id \notin DOMAIN forwards'
                   /\ forwards[id].process \in DOMAIN children'
                   /\ children'[forwards[id].process].kill # "none"]_vars

\* C16 witness: a list has returned one entry while the port-forward another
\* caller was given is no longer registered.
C16_Witness ==
    \E c, d \in Callers :
        /\ pc[c] = "returned" /\ op[c] = "list_port_forwards"
        /\ ret[c].num = 1
        /\ Cardinality(DOMAIN forwards) = 1
        /\ pc[d] = "returned" /\ op[d] = "start_port_forward"
        /\ ret[d].status = "ok"
        /\ ret[d].id \notin DOMAIN forwards

\* Caller c takes the insert step of start_port_forward.
InsertsStart(c) == pc[c] = "pf_insert" /\ pc'[c] # "pf_insert"

\* The callers whose stop_port_forward runs in this step.
StopSteps ==
    {c \in Callers : pc[c] = "idle" /\ op'[c] = "stop_port_forward"}

\* C17: start_port_forward returns, right after the spawn, a session with
\* the requested localPort and remotePort and status running, under the id
\* of its tuple; a successful stop_port_forward(id) leaves the id
\* unregistered, and a start of the same tuple that finds it so is not
\* refused, so that it yields the same id again.
C17_StopThenStartSucceeds ==
    /\ [][\A c \in Callers :
            InsertsStart(c)
            => LET id == PortForwardId(arg[c])
               IN /\ ret'[c] = Ok(id, 0)
                  /\ id \in DOMAIN forwards'
                  /\ forwards'[id].info.id = id
                  /\ forwards'[id].info.local_port = arg[c].local_port
                  /\ forwards'[id].info.remote_port = arg[c].remote_port
                  /\ forwards'[id].info.status = "running"
                  /\ forwards'[id].process = loc[c].child
                  /\ children'[loc[c].child].kill = "none"]_vars
    /\ [][\A c \in StopSteps :
            ret'[c].status = "ok" => arg'[c].id \notin DOMAIN forwards']_vars
    /\ [][\A c \in Callers :
            (ChecksStart(c) /\ PortForwardId(arg[c]) \notin DOMAIN forwards)
            => pc'[c] = "pf_spawn" /\ ret'[c] = ret[c]]_vars

\* C17 witness: a start has returned the id that a successful stop, which
\* ran before its insert, was given; the id is registered again.
C17_Witness ==
    \E c, d \in Callers :
        /\ pc[d] = "returned" /\ op[d] = "stop_port_forward"
        /\ ret[d].status = "ok"
        /\ pc[c] = "returned" /\ op[c] = "start_port_forward"
        /\ ret[c] = Ok(arg[d].id, 0)
        /\ arg[d].id \in DOMAIN forwards
        /\ arg[d].id \in DOMAIN okStarts
        /\ okStarts[arg[d].id] = 1

\* C18: stop_port_forward on an id that is not registered returns the
\* "not found" error, sends no signal to any subprocess, and leaves the
\* registry unchanged.
C18_StopUnknownIdNotFound ==
    [][\A c \in StopSteps :
          arg'[c].id \notin DOMAIN forwards
          => /\ ret'[c] = Err("Port forward not found")
             /\ forwards' = forwards
             /\ children' = children]_vars

\* C18 witness: a stop has returned "not found" while another port-forward
\* is registered with a subprocess that runs and was sent no signal.
C18_Witness ==
    \E c \in Callers, id \in DOMAIN forwards :
        /\ pc[c] = "returned" /\ op[c] = "stop_port_forward"
        /\ ret[c] = Err("Port forward not found")
        /\ arg[c].id # id
        /\ children[forwards[id].process].status = "running"
        /\ children[forwards[id].process].kill = "none"

\* The subprocess p was sent no signal and not waited for in this step.
Untouched(p) == p \in DOMAIN children' /\ children'[p] = children[p]

\* C19: stop_port_forward on a registered id issues a kill to the subprocess
\* of that entry and removes the entry whether or not the kill succeeds: the
\* call returns success or the kill error, the id is absent afterwards, the
\* other entries and subprocesses are as before, and the subprocess is not
\* waited for.
C19_StopRemovesUnconditionally ==
    [][\A c \in StopSteps :
          arg'[c].id \in DOMAIN forwards
          => LET id == arg'[c].id
                 p == forwards[id].process
             IN /\ forwards' = MapRemove(forwards, id)
                /\ ret'[c] \in {Ok(id, 0),
                                Err("Failed to kill port-forward process")}
                /\ children[p].status = "running"
                   => /\ p \in DOMAIN children'
                      /\ children'[p].status = "running"
                      /\ children'[p].kill =
                            IF ret'[c].status = "ok" THEN "sent" ELSE "failed"
                /\ \A q \in DOMAIN children \ {p} :
                      children[q].status = "running" => Untouched(q)]_vars

\* C19 witness: a stop has returned the kill error, its id is not registered
\* any more and the subprocess still runs.
C19_Witness ==
    \E c \in Callers, p \in DOMAIN children :
        /\ pc[c] = "returned" /\ op[c] = "stop_port_forward"
        /\ ret[c] = Err("Failed to kill port-forward process")
        /\ arg[c].id \notin DOMAIN forwards
        /\ children[p].status = "running"
        /\ children[p].kill = "failed"
        /\ \A id \in DOMAIN forwards : forwards[id].process # p

\* The callers whose stop_all runs in this step.
StopAllSteps == {c \in Callers : pc[c] = "idle" /\ op'[c] = "stop_all"}

\* C20: when stop_all returns, the registry is empty and a kill was issued
\* to the subprocess of every entry that was registered when it ran; it
\* returns success even when kills fail.
C20_StopAllDrainsRegistry ==
    [][\A c \in StopAllSteps :
          /\ forwards' = EmptyMap
          /\ ret'[c].status = "ok"
          /\ \A id \in DOMAIN forwards :
                children[forwards[id].process].status = "running"
                => /\ forwards[id].process \in DOMAIN children'
                   /\ children'[forwards[id].process].kill # "none"]_vars

\* C20 witness: stop_all has returned success, the registry is empty and a
\* subprocess it could not kill still runs.
C20_Witness ==
    \E c \in Callers, p \in DOMAIN children :
        /\ pc[c] = "returned" /\ op[c] = "stop_all"
        /\ ret[c].status = "ok"
        /\ forwards = EmptyMap
        /\ children[p].status = "running"
        /\ children[p].kill = "failed"

\* The callers whose start_port_forward takes a step other than the insert:
\* the call itself, the check, the spawn.
BeforeInsertSteps ==
    {c \in Callers : /\ pc[c] \in {"idle", "pf_check", "pf_spawn"}
                     /\ pc'[c] # pc[c]
                     /\ op'[c] = "start_port_forward"}

\* The callers whose spawn fails in this step.
SpawnFails ==
    {c \in Callers : /\ pc[c] = "pf_spawn"
                     /\ pc'[c] \notin {"pf_spawn", "pf_insert"}}

\* C21: when the spawn of the forwarding subprocess fails, start_port_forward
\* returns the wrapped spawn error, and no step the call has taken (the
\* check, the failed spawn) has changed the registry or any subprocess: no
\* entry is registered for the request.
C21_SpawnFailureRegistersNothing ==
    /\ [][\A c \in BeforeInsertSteps : forwards' = forwards]_vars
    /\ [][\A c \in SpawnFails :
            /\ ret'[c] = Err("Failed to start kubectl port-forward")
            /\ forwards' = forwards
            /\ children' = children
            /\ okStarts' = okStarts]_vars

\* C21 witness: a start has returned the spawn error, its id is not
\* registered, and the port-forward of another request is registered with
\* its subprocess running.
C21_Witness ==
    \E c \in Callers, id \in DOMAIN forwards :
        /\ pc[c] = "returned" /\ op[c] = "start_port_forward"
        /\ ret[c] = Err("Failed to start kubectl port-forward")
        /\ PortForwardId(arg[c]) \notin DOMAIN forwards
        /\ id # PortForwardId(arg[c])
        /\ children[forwards[id].process].status = "running"

\* The callers whose db_health_check found its connection and has returned.
HealthReturned ==
    {c \in Callers : /\ pc[c] = "returned" /\ op[c] = "db_health_check"
                     /\ loc[c].conn # 0}

\* C22: a health check of a registered connection returns a boolean and
\* never an error: false when pool.get() failed or when the probe query
\* failed, true only when both succeeded.
C22_HealthCheckNeverThrows ==
    \A c \in HealthReturned :
        /\ ret[c].status = "ok"
        /\ ret[c].id \in {"true", "false"}
        /\ loc[c].db.get = "err" => ret[c].id = "false"
        /\ loc[c].db.query = "err" => ret[c].id = "false"
        /\ ret[c].id = "true"
           <=> (loc[c].db.get = "ok" /\ loc[c].db.query = "ok")

\* C22 witness: two health checks of a connection that is still registered
\* have returned false, one after pool.get() failed and one after the probe
\* query failed.
C22_Witness ==
    \E c, d \in HealthReturned :
        /\ ret[c] = Ok("false", 0) /\ loc[c].db.get = "err"
        /\ ret[d] = Ok("false", 0) /\ loc[d].db.query = "err"
        /\ loc[c].conn \in DOMAIN connections
        /\ loc[d].conn = loc[c].conn

\* The callers whose db_disconnect or db_health_check runs its lookup in
\* this step with an id that is not registered.
UnknownIdSteps ==
    {c \in Callers : /\ pc[c] = "idle"
                     /\ op'[c] \in {"db_disconnect", "db_health_check"}
                     /\ arg'[c].connection_id \notin DOMAIN connections}

\* C23: db_disconnect and db_health_check with an id that is absent from
\* the connection registry return the "not found" error (the health check
\* does not return false), close no pool, stop no port-forward and leave
\* both registries as they are.
C23_UnknownConnectionNotFound ==
    [][\A c \in UnknownIdSteps :
          /\ ret'[c] = Err("Connection not found")
          /\ pc'[c] = "returned"
          /\ connections' = connections
          /\ pool' = pool
          /\ forwards' = forwards
          /\ children' = children
          /\ connLock' = connLock]_vars

\* C23 witness: a db_disconnect and a db_health_check have both returned
\* "not found" for a never generated id while a connection is registered
\* with its pool open and its port-forward registered.
C23_Witness ==
    \E c, d \in Callers, k \in DOMAIN connections :
        /\ pc[c] = "returned" /\ op[c] = "db_disconnect"
        /\ pc[d] = "returned" /\ op[d] = "db_health_check"
        /\ ret[c] = Err("Connection not found")
        /\ ret[d] = Err("Connection not found")
        /\ arg[c].connection_id # k /\ arg[d].connection_id # k
        /\ pool[k] = "open"
        /\ connections[k].port_forward.port_forward_id \in DOMAIN forwards

\* The steady-state commands, and the callers one of them takes a step for.
SteadyOps == {"db_health_check"} \cup QueryOps
SteadySteps ==
    {c \in Callers : op'[c] \in SteadyOps /\ pc'[c] # pc[c]}

\* C24: db_health_check and the query commands, whether they succeed or
\* fail, leave the registered connections, their pools, the registered
\* port-forwards and the subprocesses as they are; the connection they work
\* on stays registered as long as they hold the read lock, that is until
\* they return.
C24_SteadyOperationsKeepRegistries ==
    /\ [][\A c \in SteadySteps :
            /\ connections' = connections
            /\ pool' = pool
            /\ forwards' = forwards
            /\ children' = children]_vars
    /\ [](\A c \in Callers :
            (op[c] \in SteadyOps /\ c \in connLock.readers)
            => loc[c].conn \in DOMAIN connections)

\* C24 witness: a get_table_data has returned its error and a health check
\* has returned false for a connection that is still registered with its
\* port-forward.
C24_Witness ==
    \E c, d \in Callers :
        /\ pc[c] = "returned" /\ op[c] = "db_get_table_data"
        /\ ret[c] = Err("Failed to get table data")
        /\ loc[c].db.round = 2
        /\ pc[d] = "returned" /\ op[d] = "db_health_check"
        /\ ret[d] = Ok("false", 0)
        /\ loc[d].conn = loc[c].conn
        /\ loc[c].conn \in DOMAIN connections
        /\ connections[loc[c].conn].port_forward.port_forward_id
              \in DOMAIN forwards

\* The port-forward session the connection k owns, as the registry has it.
OwnsForward(k) ==
    LET pf == connections[k].port_forward
        info == connections[k].info
    IN /\ pf.port_forward_id \in DOMAIN forwards
       /\ LET s == forwards[pf.port_forward_id].info
          IN /\ s.resource_type = "service"
             /\ s.resource_name = info.cluster_name \o "-rw"
             /\ s.remote_port = 5432
             /\ s.local_port = info.local_port

\* C25: in every reachable state each registered DatabaseConnection has its
\* port-forward session registered in the port-forward registry under its
\* port_forward_id, with resource type "service", resource name
\* "<clusterName>-rw", remote port 5432 and the local port of the
\* connection.
C25_OwnedPortForwardInvariant ==
    \A k \in DOMAIN connections : OwnsForward(k)

\* The callers whose close_all_sessions drains the sessions in this step.
CloseAllSteps ==
    {c \in Callers : pc[c] = "sh_close_all" /\ pc'[c] = "returned"}

\* The pumps of session s are where they were.
PumpsUnchanged(s) ==
    /\ session'[s].stdin_task = session[s].stdin_task
    /\ session'[s].stdout_task = session[s].stdout_task

\* C26: stop_all returns in the step in which it holds the lock: it issues
\* the kill for every entry, waits for no subprocess to exit (the ones that
\* ran still run when it returns) and returns success whatever the kills
\* answer. close_all_sessions, once it has cleared the senders, always
\* reaches its return, whatever the pumps and the supervising tasks do, and
\* the step that aborts the supervising tasks waits for no pump: the pumps
\* are where they were.
C26_TeardownTerminates ==
    /\ [][\A c \in StopAllSteps :
            /\ pc'[c] = "returned"
            /\ ret'[c].status = "ok"
            /\ \A p \in DOMAIN children :
                  children[p].status = "running"
                  => /\ p \in DOMAIN children'
                     /\ children'[p].status = "running"]_vars
    /\ [][\A c \in CloseAllSteps :
            /\ ret'[c].status = "ok"
            /\ \A s \in DOMAIN session : PumpsUnchanged(s)]_vars
    /\ \A c \in Callers :
          (pc[c] = "sh_close_all")
             ~> (pc[c] = "returned" /\ op[c] = "close_all_sessions")

\* C26 witness: close_all_sessions has returned while both pumps of a
\* session whose supervising task it aborted still run, and the other
\* caller is in the middle of a start_session.
C26_Witness ==
    \E c, d \in Callers, s \in DOMAIN session :
        /\ pc[c] = "returned" /\ op[c] = "close_all_sessions"
        /\ session[s].sup = "aborted"
        /\ session[s].stdin_task = "running"
        /\ session[s].stdout_task = "running"
        /\ op[d] = "start_session" /\ pc[d] \notin {"idle", "returned"}

\* A start_session is between its call and its return.
StartRunning ==
    \E d \in Callers : pc[d] \in {"sh_attach", "sh_senders", "sh_sessions"}

\* The callers whose close_all_sessions clears the senders in this step.
ClearSteps ==
    {c \in Callers : pc[c] = "idle" /\ op'[c] = "close_all_sessions"}

\* The callers whose close_all_sessions is between its two critical
\* sections before and after this step.
BetweenSections ==
    {c \in Callers : pc[c] = "sh_close_all" /\ pc'[c] = "sh_close_all"}

\* The ids whose start_session has returned.
Started == (1..nextSession) \ InFlight

\* C27: close_all_sessions clears stdin_senders, and as long as no
\* start_session runs while it is between its two critical sections the
\* senders stay empty and no session is added; it then drains sessions,
\* aborts the supervising task of every session that was registered (one
\* that has not ended is cancelled) and returns success, so that it returns
\* with both registries empty. An id whose start_session has returned and
\* whose sender is gone never gets a sender again, and send_input on an id
\* without a sender fails: every later send_input on the closed ids fails.
C27_CloseAllEmptiesRegistries ==
    /\ [][\A c \in ClearSteps : stdin_senders' = {}]_vars
    /\ [][\A c \in BetweenSections :
            (~StartRunning /\ ~StartRunning' /\ stdin_senders = {})
            => /\ stdin_senders' = {}
               /\ sessions' \subseteq sessions]_vars
    /\ [][\A c \in CloseAllSteps :
            /\ sessions' = {}
            /\ stdin_senders' = stdin_senders
            /\ ret'[c] = Ok("", 0)
            /\ \A s \in sessions :
                  /\ session[s].sup \in {"spawned", "joining"}
                     => session'[s].sup = "aborted"
                  /\ session'[s].sup \in {"aborted", "done"}]_vars
    /\ [][\A s \in Started :
            s \notin stdin_senders => s \notin stdin_senders']_vars
    /\ [][\A c \in SendInputSteps :
            arg'[c].session_id \notin stdin_senders
            => ret'[c] = Err("Shell session not found")]_vars

\* C27 witness: close_all_sessions has returned success, both registries
\* are empty, the supervising task of a session it drained is aborted, and a
\* send_input on that id, made after, has failed.
C27_Witness ==
    \E c, d \in Callers, s \in DOMAIN session :
        /\ pc[c] = "returned" /\ op[c] = "close_all_sessions"
        /\ ret[c] = Ok("", 0)
        /\ stdin_senders = {} /\ sessions = {}
        /\ session[s].sup = "aborted" /\ session[s].removed
        /\ pc[d] = "returned" /\ op[d] = "send_input"
        /\ arg[d].session_id = s
        /\ ret[d] = Err("Shell session not found")

\* The text between the first and the last character of a quoted string.
Interior(r) == SubSeq(r, 2, Len(r) - 1)

\* What a SQL parser reads from the interior of a quoted identifier: two
\* adjacent double quotes stand for one, a double quote followed by anything
\* else is unpaired and ends the reading with the failure mark.
Unpaired == <<"unpaired">>
RECURSIVE Undouble(_)
Undouble(s) ==
    IF s = <<>> THEN <<>>
    ELSE IF Head(s) # Quote
    THEN LET rest == Undouble(Tail(s))
         IN IF rest = Unpaired THEN Unpaired ELSE <<Head(s)>> \o rest
    ELSE IF Len(s) >= 2 /\ s[2] = Quote
    THEN LET rest == Undouble(SubSeq(s, 3, Len(s)))
         IN IF rest = Unpaired THEN Unpaired ELSE <<Quote>> \o rest
    ELSE Unpaired

\* The characters of s that are not double quotes, in order.
RECURSIVE Plain(_)
Plain(s) ==
    IF s = <<>> THEN <<>>
    ELSE (IF Head(s) = Quote THEN <<>> ELSE <<Head(s)>>) \o Plain(Tail(s))

\* The callers that have an identifier quoted.
Quoted == {c \in Callers : pc[c] = "returned" /\ op[c] = "quote_identifier"}

\* C28: quote_identifier returns the identifier between one leading and one
\* trailing double quote, with every embedded double quote doubled and the
\* other characters unchanged: the interior has no unpaired double quote,
\* and reading it back (two double quotes stand for one) gives the
\* identifier.
C28_QuoteIdentifierRoundTrip ==
    \A c \in Quoted :
        LET identifier == arg[c].identifier
            r == ret[c].id
        IN /\ Len(r) >= 2
           /\ r[1] = Quote /\ r[Len(r)] = Quote
           /\ Undouble(Interior(r)) # Unpaired
           /\ Undouble(Interior(r)) = identifier
           /\ Plain(Interior(r)) = Plain(identifier)
           /\ Len(Interior(r)) =
                 Len(identifier) + (Len(identifier) - Len(Plain(identifier)))

\* C28 witness: an identifier with a double quote at its start and two at
\* its end has been quoted, and its interior has six of them.
C28_Witness ==
    \E c \in Quoted :
        /\ arg[c].identifier = <<Quote, "t", Quote, Quote>>
        /\ ret[c].id = <<Quote, Quote, Quote, "t", Quote, Quote, Quote,
                         Quote, Quote>>

\* The callers that have a value of a result row converted.
Converted ==
    {c \in Callers : pc[c] = "returned" /\ op[c] = "row_value_to_json"}

\* C29: for every column wire type, recognised scalar types, array types
\* and unrecognised types alike, row_value_to_json converts a SQL NULL to
\* the JSON null value, never to a zero value, an empty string or a
\* placeholder string.
C29_NullPreserved ==
    \A c \in Converted : arg[c].value = "NULL" => ret[c].id = JsonNull

\* The callers whose find_free_port has returned a port.
Probed ==
    {c \in Callers : /\ pc[c] = "returned" /\ op[c] = "find_free_port"
                     /\ ret[c].status = "ok"}

\* The callers whose find_free_port reads the address and returns in this
\* step.
ProbeReturns ==
    {c \in Callers : pc[c] = "ffp_bound" /\ pc'[c] = "returned"}

ExecSteps == {c \in Callers : pc[c] = "sh_attach" /\ loc'[c] # loc[c]}

\* The successful launches in a history of pods.exec calls.
Launched(tried) == {i \in 1..Len(tried) : tried[i].ok}

\* C31: every pods.exec of start_session is made with the next shell of the
\* list (/bin/bash, /bin/sh, /bin/ash, or only the override), one call per
\* step and none after a launch that succeeded, so at most one remote
\* process is attached for the session; start_session goes on exactly when
\* the launch succeeded, and when the last shell of the list failed too it
\* returns the error that carries the last launch error, with no channel and
\* no task created for the session and both registries unchanged.
C31_AttachFallback ==
    [][\A c \in ExecSteps :
          LET list == ShellsToTry(arg[c])
              before == LoopOf(c).tried
              after == loc'[c].db.tried
              n == Len(after)
          IN /\ n = Len(before) + 1
             /\ n <= Len(list)
             /\ list \in {<<arg[c].shell>>,
                          <<"/bin/bash", "/bin/sh", "/bin/ash">>}
             /\ (arg[c].shell # "") <=> (list = <<arg[c].shell>>)
             /\ after[n].shell = list[n]
             /\ \A i \in 1..Len(before) : after[i] = before[i]
             /\ Launched(before) = {}
             /\ Cardinality(Launched(after)) <= 1
             /\ UNCHANGED shellVars
             /\ (pc'[c] = "sh_senders") <=> after[n].ok
             /\ (pc'[c] = "sh_attach") <=> (~after[n].ok /\ n < Len(list))
             /\ (pc'[c] = "returned") <=> (~after[n].ok /\ n = Len(list))
             /\ pc'[c] = "returned" =>
                   /\ ret'[c].status = "err"
                   /\ ret'[c].err = "Failed to execute shell"
                   /\ ret'[c].id = list[Len(list)]
                   /\ loc[c].sid \notin DOMAIN session'
                   /\ loc[c].sid \notin stdin_senders'
                   /\ loc[c].sid \notin sessions'
      ]_vars

\* C31 witness: one start_session without an override has returned the
\* error of /bin/ash after three failed launches, and another has attached
\* /bin/sh after /bin/bash failed.
C31_Witness ==
    \E c, d \in Callers :
        /\ pc[c] = "returned"
        /\ op[c] = "start_session"
        /\ ret[c].id = "/bin/ash"
        /\ Len(loc[c].db.tried) = 3
        /\ op[d] = "start_session"
        /\ pc[d] = "sh_senders"
        /\ loc[d].db.attached = "/bin/sh"
        /\ Len(loc[d].db.tried) = 2

\* ----------------------------------------------------------------------
\* C32  Input pump ordering
\* ----------------------------------------------------------------------

\* The chunks of the write_all calls in a history of the remote stream:
\* those that were written, or those that were written or failed.
DataOf(w, ops) ==
    LET sel == SelectSeq(w, LAMBDA ev : ev.op \in ops)
    IN [i \in 1..Len(sel) |-> sel[i].data]

IsPrefix(a, b) == Len(a) <= Len(b) /\ a = SubSeq(b, 1, Len(a))

\* What holds of the input pump of session s in every state.
PumpOrder(s) ==
    LET w == session[s].wire
    IN /\ IsPrefix(DataOf(w, {"write"}), session[s].sent)
       /\ IsPrefix(DataOf(w, {"write", "write_error"}), session[s].sent)
       /\ \A i \in 1..Len(w) :
             /\ w[i].op = "write" =>
                   IF i < Len(w)
                   THEN w[i + 1].op \in {"flush", "flush_error"}
                   ELSE /\ session[s].stdin_task = "running"
                        /\ session[s].stdin_at = "flush"
             /\ w[i].op \in {"flush", "flush_error"} =>
                   i > 1 /\ w[i - 1].op = "write"
             /\ w[i].op \in {"write_error", "flush_error"} =>
                   i = Len(w) /\ session[s].stdin_task = "done"
       /\ session[s].stdin_task = "done" =>
             \/ w # <<>> /\ w[Len(w)].op \in {"write_error", "flush_error"}
             \/ s \notin stdin_senders /\ session[s].queue = <<>>

\* The channel of session s is closed while its input pump runs.
QueueClosed(s) ==
    /\ s \in DOMAIN session
    /\ session[s].stdin_task = "running"
    /\ s \notin stdin_senders

PumpEnded(s) == s \in DOMAIN session /\ session[s].stdin_task = "done"

\* C32: in every state the chunks written to the remote input stream of a
\* session are the first of the chunks its send_input calls enqueued, in the
\* order of enqueueing and each once; every write is followed by a flush;
\* nothing is written or flushed after the first write or flush error, which
\* ends the pump; and a pump whose channel is closed eventually ends.
C32_InputPumpOrdering ==
    /\ [](\A s \in DOMAIN session : PumpOrder(s))
    /\ \A s \in SessionIds : QueueClosed(s) ~> PumpEnded(s)

\* C32 witness: three chunks were enqueued, "ls" then "exit" were written
\* and flushed, and the pump has ended because close_session closed the
\* channel.
C32_Witness ==
    \E s \in DOMAIN session :
        /\ Len(session[s].sent) = 3
        /\ session[s].sent[1] = "ls"
        /\ session[s].sent[2] = "exit"
        /\ Len(session[s].wire) = 6
        /\ session[s].wire[6].op = "flush"
        /\ session[s].stdin_task = "done"
        /\ s \notin stdin_senders

\* ----------------------------------------------------------------------
\* C33  Independence of distinct port-forward tuples
\* ----------------------------------------------------------------------

\* The requests whose id has been computed: those of the running
\* start_port_forward calls.
Starting == {arg[c] : c \in {x \in Callers : pc[x] \in {"pf_check",
                                               "pf_spawn", "pf_insert"}}}

\* C33: two different (resourceType, namespace, resourceName, localPort)
\* tuples never receive the same id, and start_port_forward fails with
\* "Port forward already exists" only when an entry for the very same tuple
\* is registered, also for names and namespaces that contain '-'.
C33_DistinctTuplesIndependent ==
    [][/\ \A r1, r2 \in Starting' :
             PortForwardId(r1) = PortForwardId(r2)
                => TupleOf(r1) = TupleOf(r2)
       /\ \A c \in Callers :
             (ChecksStart(c) /\ ret'[c] = Err("Port forward already exists"))
                => EntriesFor(forwards, arg[c]) # {}]_vars

\* ----------------------------------------------------------------------
\* C34  No orphaned tunnel
\* ----------------------------------------------------------------------

\* The subprocesses whose registry entry ceases to exist in this step: the
\* entry is removed, or the insert of a later start replaces its handle.
Released ==
    {forwards[id].process :
        id \in {x \in DOMAIN forwards :
                   \/ x \notin DOMAIN forwards'
                   \/ forwards'[x].process # forwards[x].process}}

\* C34: a subprocess whose registry entry ceases to exist (by
\* stop_port_forward, the sweep of list_port_forwards, stop_all or the
\* insert of a later start under the same id) has exited before, or
\* Child::kill is called on it in that step; and no two registry entries
\* hold the same subprocess.
C34_NoOrphanedTunnel ==
    [][/\ \A p \in Released :
             \/ children[p].status = "exited"
             \/ /\ p \in DOMAIN children'
                /\ children[p].kill = "none"
                /\ children'[p].kill \in {"sent", "failed"}
       /\ \A id1, id2 \in DOMAIN forwards' :
             forwards'[id1].process = forwards'[id2].process => id1 = id2
       /\ \A id \in DOMAIN forwards' :
             /\ forwards'[id].process \in DOMAIN children'
             /\ children'[forwards'[id].process].kill = "none"]_vars

\* C34 witness: the handle of a running subprocess was replaced by the
\* insert of a later start and its subprocess was sent the kill signal,
\* while the entry holds the subprocess of the later start.
C34_Witness ==
    \E p \in ChildIds, id \in DOMAIN forwards :
        /\ children[p].replaced
        /\ children[p].status = "running"
        /\ children[p].kill = "sent"
        /\ forwards[id].process # p
        /\ children[forwards[id].process].tuple = children[p].tuple

\* ----------------------------------------------------------------------
\* C35  Dead entries are pruned only by list_port_forwards
\* ----------------------------------------------------------------------

\* The registered ids whose subprocess has exited.
DeadEntries == {id \in DOMAIN forwards :
                   children[forwards[id].process].status = "exited"}

\* The callers that take a step of start_port_forward.
StartSteps == {c \in Callers : /\ pc[c] \in {"pf_check", "pf_spawn",
                                             "pf_insert"}
                               /\ pc'[c] # pc[c]}

\* C35: a step in which no command acts (a subprocess exits) leaves the
\* registry as it is; no step of start_port_forward removes an id from the
\* registry; and the check of a start_port_forward whose id is registered
\* with a subprocess that has exited returns "Port forward already exists",
\* spawns nothing and leaves the dead entry in place.
C35_DeadEntriesPrunedOnlyByList ==
    [][/\ pc' = pc => forwards' = forwards
       /\ \A c \in StartSteps :
             /\ DOMAIN forwards \subseteq DOMAIN forwards'
             /\ (ChecksStart(c) /\ PortForwardId(arg[c]) \in DeadEntries)
                   => /\ ret'[c] = Err("Port forward already exists")
                      /\ pc'[c] = "returned"
                      /\ forwards' = forwards
                      /\ children' = children]_vars

\* C35 witness: a start_port_forward has returned "Port forward already
\* exists" for an id whose entry holds a subprocess that has exited.
C35_Witness ==
    \E c \in Callers :
        /\ pc[c] = "returned"
        /\ op[c] = "start_port_forward"
        /\ ret[c] = Err("Port forward already exists")
        /\ PortForwardId(arg[c]) \in DeadEntries

\* ----------------------------------------------------------------------
\* C36  db_disconnect when the stop of the port-forward fails
\* ----------------------------------------------------------------------

\* The callers whose db_disconnect returns from close in this step.
CloseReturns == {c \in Callers : pc[c] = "db_close_stop"
                                 /\ pc'[c] = "returned"}

\* The callers that invoke db_disconnect in this step.
DisconnectSteps == {c \in Callers : pc[c] = "idle"
                                    /\ op'[c] = "db_disconnect"}

\* The connections a db_disconnect has removed and closed.
Disconnected == {k \in DOMAIN pool : pool[k] = "closed"}

\* C36: when db_disconnect returns, the connection is out of the registry
\* and its pool is closed, also when the stop of its port-forward failed (the
\* port-forward was not registered any more, or the kill failed), in which
\* case the error is returned; a later db_disconnect with the same id fails
\* with "Connection not found" and changes nothing.
C36_DisconnectRemovesDespiteStopError ==
    [][/\ \A c \in CloseReturns :
             LET id == loc[c].db.port_forward_id
             IN /\ loc[c].conn \notin DOMAIN connections'
                /\ pool'[loc[c].conn] = "closed"
                /\ id \notin DOMAIN forwards'
                /\ ret'[c] \in {Ok("", loc[c].conn),
                                Err("Failed to stop port-forward")}
                /\ id \notin DOMAIN forwards => ret'[c].status = "err"
                /\ \A p \in DOMAIN children' :
                      (id \in DOMAIN forwards /\ forwards[id].process = p)
                         => (ret'[c].status = "err")
                               <=> (children'[p].kill = "failed")
       /\ \A c \in DisconnectSteps :
             arg'[c].connection_id \in Disconnected
                => /\ ret'[c] = Err("Connection not found")
                   /\ pc'[c] = "returned"
                   /\ UNCHANGED <<pfVars, dbVars>>]_vars

\* C36 witness: a db_disconnect has returned the error of the stop because
\* the sweep of list_port_forwards had pruned the port-forward, and a second
\* db_disconnect with the same id has returned "Connection not found".
C36_Witness ==
    \E c, d \in Callers :
        /\ pc[c] = "returned" /\ op[c] = "db_disconnect"
        /\ ret[c] = Err("Failed to stop port-forward")
        /\ pc[d] = "returned" /\ op[d] = "db_disconnect"
        /\ ret[d] = Err("Connection not found")
        /\ arg[d].connection_id = arg[c].connection_id
        /\ arg[c].connection_id \in Disconnected
        /\ connections = EmptyMap
        /\ \A p \in ChildIds : children[p].kill = "none"

\* ----------------------------------------------------------------------
\* C37  No query runs on a torn-down connection
\* ----------------------------------------------------------------------

\* Caller c runs a health check or a query: it has looked the connection up
\* and has not returned.
InProgress(c) ==
    pc[c] \in {"db_health_get", "db_health_query", "db_query_get",
               "db_query_run"}

\* Caller d runs the close of connection k in db_disconnect.
Closing(d, k) ==
    pc[d] \in {"db_close_pool", "db_close_stop"} /\ loc[d].conn = k

\* C37: while a health check or a query on a connection is in progress (so
\* at each of its pool.get() calls and statements) the pool of that
\* connection is open and no db_disconnect is closing the connection: the
\* pool is never closed under a running command, and no command gets a
\* client from a pool that was closed.
C37_NoQueryOnTornDownConnection ==
    \A c \in Callers :
        InProgress(c) =>
            /\ loc[c].conn \in DOMAIN connections
            /\ loc[c].conn \in DOMAIN pool
            /\ pool[loc[c].conn] = "open"
            /\ c \in connLock.readers
            /\ connLock.writer = ""
            /\ \A d \in Callers : ~Closing(d, loc[c].conn)

\* C37 witness: a get_table_data has got its second client and run to its
\* end on a connection that the other caller's db_disconnect, which came
\* next, has removed and whose pool it has closed.
C37_Witness ==
    \E c, d \in Callers :
        /\ pc[c] = "returned"
        /\ op[c] = "db_get_table_data"
        /\ ret[c] = Ok("rows", 0)
        /\ loc[c].db.round = 2
        /\ Closing(d, loc[c].conn)
        /\ pool[loc[c].conn] = "closed"

\* ----------------------------------------------------------------------
\* C38  Private local ports
\* ----------------------------------------------------------------------

\* The db_connect calls that have been given a local port and have not
\* returned.
Connecting == {c \in Callers : /\ op[c] = "db_connect"
                               /\ pc[c] \in {"pf_check", "pf_spawn",
                                             "pf_insert", "db_pf_created",
                                             "db_test", "db_register"}}

\* C38: no two running db_connect calls hold the same local port, and no
\* two registered connections have the same local_port.
C38_PrivateLocalPorts ==
    /\ \A c, d \in Connecting :
          arg[c].local_port = arg[d].local_port => c = d
    /\ \A k1, k2 \in DOMAIN connections :
          connections[k1].info.local_port = connections[k2].info.local_port
             => k1 = k2

\* ----------------------------------------------------------------------
\* C39  Shell registry consistency
\* ----------------------------------------------------------------------

\* No command of the ShellManager is in progress.
ShellQuiescent == \A c \in Callers : pc[c] \in {"idle", "returned"}

\* C39: whenever no ShellManager operation is in progress, the sessions map
\* and the stdin_senders map hold the same session ids.
C39_ShellRegistriesConsistent ==
    ShellQuiescent => sessions = stdin_senders

\* ----------------------------------------------------------------------
\* C40  Deadlock freedom
\* ----------------------------------------------------------------------

====
